---- MODULE Spec2Model ----
(***************************************************************************)
(* Scenario simulation and alert lifecycle engine of the adaptive ATC      *)
(* study backend: backend/scenarios/base_scenario.py (BaseScenario) with   *)
(* the event script of backend/scenarios/scenario_l1.py.                   *)
(*                                                                         *)
(* Python strings are sequences of tokens, so that f-string keys           *)
(* (f"{target}_{event_type}_detection") and the substring test             *)
(* ("target in key") are computed as the code computes them.  Times are    *)
(* integers counting clock ticks of 1/TicksPerSecond seconds.  An optional *)
(* value is <<>> (None) or <<v>>.                                          *)
(***************************************************************************)
EXTENDS Integers, Sequences, FiniteSets, TLC

\* ------------------------------------------------------------------ bounds
TicksPerSecond == 2
MaxNow == 4
MaxAlertNow == 2
MaxMeasurementNow == 2
MaxGenerateCalls == 2
MaxCapCalls == 4
MaxMeasurementCalls == 2

\* ------------------------------------------------------------------ values
None == <<>>
Some(v) == <<v>>
IsNone(o) == o = <<>>
Val(o) == o[1]

\* s in k, for Python strings
Contains(s, k) == \E i \in 0..(Len(k) - Len(s)) : SubSeq(k, i + 1, i + Len(s)) = s
\* f"{a}_{b}"
Fmt2(a, b) == a \o <<"_">> \o b
\* int(t) of a time in seconds
IntSec(t) == t \div TicksPerSecond

abs(n) == IF n < 0 THEN 0 - n ELSE n

min(a, b) == IF a <= b THEN a ELSE b

\* math.cos and math.sin of a heading in degrees, for the headings along the axes
cos(heading) == CASE heading % 360 = 0 -> 1 [] heading % 360 = 180 -> 0 - 1 [] OTHER -> 0

sin(heading) == CASE heading % 360 = 90 -> 1 [] heading % 360 = 270 -> 0 - 1 [] OTHER -> 0

\* callsigns and other targets
AAL119 == <<"AAL11", "9">>
AAL11 == <<"AAL11">>
UAL238 == <<"UAL238">>
system == <<"system">>

\* event, measurement and alert types
emergency == <<"emergency">>
comm_loss == <<"comm", "_", "loss">>
phase_transition == <<"phase", "_", "transition">>
weather == <<"weather">>
altitude_deviation == <<"altitude", "_", "deviation">>
conflict == <<"conflict">>
ml_prediction == <<"ml", "_", "prediction">>
custom_event == <<"custom", "_", "event">>
faulty_event == <<"faulty", "_", "event">>
internal == <<"internal">>
N123AB == <<"N123AB">>

\* ------------------------------------------------------------------ state
VARIABLES
    condition,            \* self.condition: 1 modal, 2 rule-based, 3 ML
    now,                  \* the wall clock read by datetime.now()
    start_time,           \* self.start_time (optional)
    paused,               \* self.paused
    elapsed_time,         \* self.elapsed_time
    last_elapsed_time,    \* self.last_elapsed_time
    aircraft,             \* self.aircraft: callsign -> Aircraft
    events,               \* self.events
    sagat_probes,         \* self.sagat_probes
    measurements,         \* self.measurements, in insertion order: <<[key, m]>>
    active_alerts,        \* self.active_alerts, in insertion order
    alert_history,        \* self.alert_history
    suppressed_alerts,    \* self.suppressed_alerts
    resolved_predictions, \* self.resolved_predictions
    pending_predictions,  \* self.pending_predictions: the prediction ids stored
    scenario_id,          \* which scenario class the object is
    current_phase,        \* self.current_phase
    requested,            \* request.elapsed_time of the last update request (optional)
    response,             \* what the server answered to the last update request
    update_result,        \* what the last update() returned
    event_returns,        \* per event: in how many update results it was returned
    probe_returns,        \* per probe: in how many update results it was returned
    calls_made,           \* operations called so far, per bounded kind
    engine,               \* sim_engine: the standalone SimulationEngine of the server
    loop                  \* the asyncio event loop: its clock, tasks and pending calls

vars == <<scenario_id, condition, now, start_time, paused, elapsed_time, last_elapsed_time,
          aircraft, events, sagat_probes, measurements, active_alerts,
          alert_history, suppressed_alerts, resolved_predictions,
          pending_predictions, update_result, event_returns, probe_returns, calls_made,
          current_phase, requested, response, engine, loop>>

\* the standalone simulator and the event loop that runs it
sim_vars == <<engine, loop>>

\* the scenario object the methods below read and return; raised tells that
\* an exception is propagating out of the call in progress
Self ==
    [scenario_id |-> scenario_id,
     raised |-> FALSE,
     condition |-> condition,
     elapsed_time |-> elapsed_time,
     current_phase |-> current_phase,
     aircraft |-> aircraft,
     events |-> events,
     sagat_probes |-> sagat_probes,
     measurements |-> measurements,
     active_alerts |-> active_alerts,
     alert_history |-> alert_history,
     suppressed_alerts |-> suppressed_alerts,
     resolved_predictions |-> resolved_predictions,
     pending_predictions |-> pending_predictions]

Commit(s) ==
    /\ elapsed_time' = s.elapsed_time
    /\ current_phase' = s.current_phase
    /\ aircraft' = s.aircraft
    /\ events' = s.events
    /\ sagat_probes' = s.sagat_probes
    /\ measurements' = s.measurements
    /\ active_alerts' = s.active_alerts
    /\ alert_history' = s.alert_history
    /\ suppressed_alerts' = s.suppressed_alerts
    /\ resolved_predictions' = s.resolved_predictions
    /\ pending_predictions' = s.pending_predictions

\* ------------------------------------------------------------------ measurements
\* index of key in the measurements dict, 0 when absent
KeyIndex(ms, key) ==
    IF \E i \in 1..Len(ms) : ms[i].key = key
    THEN CHOOSE i \in 1..Len(ms) : ms[i].key = key
    ELSE 0

\* self.measurements[key] = m: a present key keeps its place
SetMeasurement(ms, key, m) ==
    IF KeyIndex(ms, key) = 0
    THEN Append(ms, [key |-> key, m |-> m])
    ELSE [ms EXCEPT ![KeyIndex(ms, key)] = [key |-> key, m |-> m]]

MeasurementKey(target, event_type) == Fmt2(Fmt2(target, event_type), <<"detection">>)

register_measurement(s, event_type, target) ==
    [s EXCEPT !.measurements =
        SetMeasurement(s.measurements, MeasurementKey(target, event_type),
            [event_type |-> event_type,
             target |-> target,
             event_time |-> s.elapsed_time,
             detected_time |-> None,
             resolved_time |-> None,
             detection_delay |-> None,
             resolution_delay |-> None])]

\* the measurement resolve_measurement works on: the exact key, else the
\* first key that contains both target and event_type; 0 when there is none
ResolveLookup(ms, target, event_type) ==
    IF KeyIndex(ms, MeasurementKey(target, event_type)) # 0
    THEN KeyIndex(ms, MeasurementKey(target, event_type))
    ELSE IF \E i \in 1..Len(ms) : Contains(target, ms[i].key) /\ Contains(event_type, ms[i].key)
         THEN CHOOSE i \in 1..Len(ms) :
                /\ Contains(target, ms[i].key) /\ Contains(event_type, ms[i].key)
                /\ \A j \in 1..(i - 1) :
                     ~(Contains(target, ms[j].key) /\ Contains(event_type, ms[j].key))
         ELSE 0

\* resolve_measurement: <<self, returned>>; returned is "True", "False" or
\* "KeyError" (measurement['event_time'] of a measurement that has no such
\* field, raised after the timestamp was stored)
resolve_measurement(s, target, event_type, resolution_type) ==
    LET ms == s.measurements
        i == ResolveLookup(ms, target, event_type)
        t == s.elapsed_time
    IN  IF i = 0 THEN <<s, "False">>
        ELSE LET m == ms[i].m
                 time_field == IF resolution_type = "detected" THEN "detected_time" ELSE "resolved_time"
                 delay_field == IF resolution_type = "detected" THEN "detection_delay" ELSE "resolution_delay"
             IN  IF resolution_type \notin {"detected", "resolved"} THEN <<s, "False">>
                 ELSE IF ~IsNone(m[time_field]) THEN <<s, "False">>
                 ELSE IF "event_time" \notin DOMAIN m
                      THEN <<[s EXCEPT !.measurements[i].m[time_field] = Some(t)], "KeyError">>
                      ELSE <<[s EXCEPT !.measurements[i].m[time_field] = Some(t),
                                       !.measurements[i].m[delay_field] = Some(t - m.event_time)],
                             "True">>

\* detection_interactions of _check_measurement_resolution, a list the
\* method defines and does not read
detection_interactions == {"click", "select", "hover", "focus", "inspect"}

resolution_interactions ==
    {"command", "clearance", "frequency_change", "altitude_command", "heading_command",
     "speed_command", "vector", "handoff", "acknowledge", "radio_contact", "dismiss",
     "clear", "resolve"}

\* measurement.get(f) or ...: a missing field, None and 0 are all falsy
Truthy(m, f) == f \in DOMAIN m /\ m[f] # 0

\* event_time or loss_time or deviation_time or intrusion_time or alarm_time
\* or conflict_time or 0
EventTimeOf(m) ==
    IF Truthy(m, "event_time") THEN m.event_time
    ELSE IF Truthy(m, "loss_time") THEN m.loss_time
    ELSE IF Truthy(m, "deviation_time") THEN m.deviation_time
    ELSE IF Truthy(m, "intrusion_time") THEN m.intrusion_time
    ELSE IF Truthy(m, "alarm_time") THEN m.alarm_time
    ELSE IF Truthy(m, "conflict_time") THEN m.conflict_time
    ELSE 0

\* m with field f set to v, added when m has no such field
WithField(m, f, v) == [g \in DOMAIN m \cup {f} |-> IF g = f THEN v ELSE m[g]]

GetOpt(m, f) == IF f \in DOMAIN m THEN m[f] ELSE None

\* one measurement under a check that stamps it whether or not it is stamped
CheckOneOverwriting(entry, interaction_type, target, t) ==
    IF ~Contains(target, entry.key) THEN entry
    ELSE LET m0 == entry.m
             m1 == WithField(WithField(m0, "detected_time", Some(t)),
                             "detection_delay", Some(t - EventTimeOf(m0)))
             m2 == IF interaction_type \in resolution_interactions
                   THEN WithField(WithField(m1, "resolved_time", Some(t)),
                                  "resolution_delay", Some(t - EventTimeOf(m0)))
                   ELSE m1
         IN  [key |-> entry.key, m |-> m2]

\* one measurement under _check_measurement_resolution
CheckOne(entry, interaction_type, target, t) ==
    IF ~Contains(target, entry.key) THEN entry
    ELSE LET m0 == entry.m
             m1 == IF IsNone(GetOpt(m0, "detected_time"))
                   THEN WithField(WithField(m0, "detected_time", Some(t)),
                                  "detection_delay", Some(t - EventTimeOf(m0)))
                   ELSE m0
             m2 == IF IsNone(GetOpt(m1, "resolved_time")) /\ interaction_type \in resolution_interactions
                   THEN WithField(WithField(m1, "resolved_time", Some(t)),
                                  "resolution_delay", Some(t - EventTimeOf(m0)))
                   ELSE m1
         IN  [key |-> entry.key, m |-> m2]

check_measurement_resolution(s, interaction_type, target) ==
    [s EXCEPT !.measurements =
        [i \in 1..Len(s.measurements) |->
            CheckOne(s.measurements[i], interaction_type, target, s.elapsed_time)]]

\* self.interactions is a log nothing reads back
record_interaction(s, interaction_type, target) ==
    check_measurement_resolution(s, interaction_type, target)

\* ------------------------------------------------------------------ alerts
\* data.get('priority', 'medium')
PriorityOf(data) == IF "priority" \in DOMAIN data THEN data.priority ELSE "medium"

\* priority_order.get(p, 0)
priority_order(p) ==
    CASE p = "low" -> 0
      [] p = "medium" -> 1
      [] p = "high" -> 2
      [] p = "critical" -> 3
      [] OTHER -> 0

\* f"{alert_type}_{target}_{int(self.elapsed_time)}"
AlertId(alert_type, target, t) == Fmt2(Fmt2(alert_type, target), <<ToString(IntSec(t))>>)

\* f"{target}_{event_type}"
PredictionId(target, event_type) == Fmt2(target, event_type)

AlertIndex(alerts, alert_id) ==
    IF \E i \in 1..Len(alerts) : alerts[i].alert_id = alert_id
    THEN CHOOSE i \in 1..Len(alerts) : alerts[i].alert_id = alert_id
    ELSE 0

\* self.active_alerts[alert_id] = alert: a present id keeps its place
SetAlert(alerts, alert) ==
    IF AlertIndex(alerts, alert.alert_id) = 0
    THEN Append(alerts, alert)
    ELSE [alerts EXCEPT ![AlertIndex(alerts, alert.alert_id)] = alert]

\* del self.active_alerts[alert_id]
DelAlert(alerts, alert_id) ==
    LET i == AlertIndex(alerts, alert_id)
    IN  SubSeq(alerts, 1, i - 1) \o SubSeq(alerts, i + 1, Len(alerts))

\* the lookup with the prediction id built from its parts in the other order
should_show_real_alert_other_key(s, event_type, target) ==
    PredictionId(event_type, target) \notin s.resolved_predictions

should_show_real_alert(s, event_type, target) ==
    PredictionId(target, event_type) \notin s.resolved_predictions

\* the lookup with its two arguments compared against the wrong fields
find_similar_alert_swapped(alerts, alert_type, target) ==
    IF \E i \in 1..Len(alerts) : alerts[i].type = target /\ alerts[i].target = alert_type
    THEN CHOOSE i \in 1..Len(alerts) : alerts[i].type = target /\ alerts[i].target = alert_type
    ELSE 0

\* index of the first active alert of this type and target, 0 when none
find_similar_alert(alerts, alert_type, target) ==
    IF \E i \in 1..Len(alerts) : alerts[i].type = alert_type /\ alerts[i].target = target
    THEN CHOOSE i \in 1..Len(alerts) :
            /\ alerts[i].type = alert_type /\ alerts[i].target = target
            /\ \A j \in 1..(i - 1) : ~(alerts[j].type = alert_type /\ alerts[j].target = target)
    ELSE 0

\* the modal test with the acknowledgement read the wrong way round
has_blocking_modal_acknowledged(alerts) ==
    \E i \in 1..Len(alerts) : alerts[i].blocking /\ ~IsNone(alerts[i].acknowledged_at)

has_blocking_modal(alerts) ==
    \E i \in 1..Len(alerts) : alerts[i].blocking /\ IsNone(alerts[i].acknowledged_at)

\* the alerts counted against max_simultaneous_alerts
non_critical_active(alerts) ==
    Cardinality({i \in 1..Len(alerts) : alerts[i].priority \notin {"critical", "high"}})

max_simultaneous_alerts == 3

\* the ceiling test with a strict comparison
cap_reached_strict(alerts) == non_critical_active(alerts) > max_simultaneous_alerts

\* non_critical_active >= self.max_simultaneous_alerts
cap_reached(alerts) == non_critical_active(alerts) >= max_simultaneous_alerts

\* the priority taken from the latest call, higher or not
UpdatedPriorityLatest(old, new) == new

\* the priority _update_alert leaves on the alert
UpdatedPriority(old, new) ==
    IF priority_order(new) > priority_order(old) THEN new ELSE old

\* _update_alert that leaves update_count as it was
update_alert_uncounted(s, i, new_data) ==
    LET a == s.active_alerts[i]
        b == [a EXCEPT
                !.message = IF "message" \in DOMAIN new_data THEN new_data.message ELSE @,
                !.priority = UpdatedPriority(@, PriorityOf(new_data)),
                !.updated_at = Some(s.elapsed_time)]
    IN  <<[s EXCEPT !.active_alerts[i] = b], Some(b)>>

\* _update_alert on the alert at index i: <<self, returned alert>>
update_alert(s, i, new_data) ==
    LET a == s.active_alerts[i]
        b == [a EXCEPT
                !.message = IF "message" \in DOMAIN new_data THEN new_data.message ELSE @,
                !.priority = UpdatedPriority(@, PriorityOf(new_data)),
                !.updated_at = Some(s.elapsed_time),
                !.update_count = @ + 1]
    IN  <<[s EXCEPT !.active_alerts[i] = b], Some(b)>>

Suppressed(s, alert_type, target, priority, reason) ==
    [alert_id |-> AlertId(alert_type, target, s.elapsed_time),
     type |-> alert_type,
     target |-> target,
     priority |-> priority,
     reason |-> reason,
     suppressed_at |-> s.elapsed_time]

\* the alert generate_alert builds; update_count, updated_at, last_emitted_at
\* and reemit_count are the fields later calls add (0 and None until then)
NewAlert(s, alert_type, target, data) ==
    [alert_id |-> AlertId(alert_type, target, s.elapsed_time),
     type |-> alert_type,
     target |-> target,
     priority |-> PriorityOf(data),
     message |-> IF "message" \in DOMAIN data THEN data.message ELSE "",
     generated_at |-> s.elapsed_time,
     acknowledged_at |-> None,
     resolved_at |-> None,
     blocking |-> (s.condition = 1),
     update_count |-> 0,
     updated_at |-> None,
     last_emitted_at |-> None,
     reemit_count |-> 0]

\* the check for a resolved ML prediction that opens generate_alert
MlSuppressed(s, alert_type, target, data) ==
    /\ s.condition = 3
    /\ alert_type # ml_prediction
    /\ ~("is_prediction" \in DOMAIN data /\ data.is_prediction)
    /\ ~should_show_real_alert(s, alert_type, target)

\* generate_alert: <<self, returned>>; returned is None or the alert
generate_alert(s, alert_type, target, data) ==
    LET priority == PriorityOf(data)
        existing == find_similar_alert(s.active_alerts, alert_type, target)
        suppress(reason) ==
            <<[s EXCEPT !.suppressed_alerts =
                  Append(@, Suppressed(s, alert_type, target, priority, reason))],
              None>>
        alert == NewAlert(s, alert_type, target, data)
    IN  IF MlSuppressed(s, alert_type, target, data)
        THEN suppress("ml_prediction_resolved")
        ELSE IF existing # 0
        THEN update_alert(s, existing, data)
        ELSE IF has_blocking_modal(s.active_alerts) /\ priority \notin {"critical", "high"}
        THEN suppress("blocking_modal_active")
        ELSE IF cap_reached(s.active_alerts) /\ priority \notin {"critical", "high"}
        THEN suppress("max_alerts_reached")
        ELSE <<[s EXCEPT !.active_alerts = SetAlert(@, alert),
                         !.alert_history = Append(@, [alert |-> alert, status |-> "generated"])],
               Some(alert)>>

\* acknowledge_alert: <<self, returned>>
acknowledge_alert(s, alert_id) ==
    LET i == AlertIndex(s.active_alerts, alert_id)
    IN  IF i # 0
        THEN <<[s EXCEPT !.active_alerts[i].acknowledged_at = Some(s.elapsed_time)], "True">>
        ELSE <<s, "False">>

\* resolve_alert stamping the history and leaving the alert among the active
resolve_alert_kept(s, alert_id) ==
    LET i == AlertIndex(s.active_alerts, alert_id)
    IN  IF i # 0
        THEN <<[s EXCEPT
                  !.alert_history =
                      [h \in 1..Len(@) |->
                          IF @[h].alert.alert_id = alert_id
                          THEN [alert |-> [@[h].alert EXCEPT !.resolved_at = Some(s.elapsed_time)],
                                status |-> "resolved"]
                          ELSE @[h]],
                  !.active_alerts[i].resolved_at = Some(s.elapsed_time)],
               "True">>
        ELSE <<s, "False">>

\* resolve_alert: <<self, returned>>; every history record of that id is stamped
resolve_alert(s, alert_id) ==
    LET i == AlertIndex(s.active_alerts, alert_id)
    IN  IF i # 0
        THEN <<[s EXCEPT
                  !.alert_history =
                      [h \in 1..Len(@) |->
                          IF @[h].alert.alert_id = alert_id
                          THEN [alert |-> [@[h].alert EXCEPT !.resolved_at = Some(s.elapsed_time)],
                                status |-> "resolved"]
                          ELSE @[h]],
                  !.active_alerts = DelAlert(@, alert_id)],
               "True">>
        ELSE <<s, "False">>

\* a.get(field) is truthy: neither None nor 0
Given(o) == ~IsNone(o) /\ Val(o) # 0

\* get_alert_metrics(): the counts and the average response time, None when
\* no record of the history has an acknowledgement
get_alert_metrics(s) ==
    LET history == s.alert_history
        acknowledged == {h \in 1..Len(history) : Given(history[h].alert.acknowledged_at)}
        timed == {h \in acknowledged : history[h].alert.generated_at # 0}
        RECURSIVE sum(_)
        sum(hs) == IF hs = {} THEN 0
                   ELSE LET h == CHOOSE x \in hs : TRUE
                        IN  Val(history[h].alert.acknowledged_at)
                                - history[h].alert.generated_at + sum(hs \ {h})
    IN  [total_generated |-> Len(history),
         total_suppressed |-> Len(s.suppressed_alerts),
         total_acknowledged |-> Cardinality(acknowledged),
         total_resolved |-> Cardinality({h \in 1..Len(history) :
                                            Given(history[h].alert.resolved_at)}),
         currently_active |-> Len(s.active_alerts),
         avg_response_time |-> IF timed = {} THEN None
                               ELSE Some(sum(timed) \div Cardinality(timed))]

\* resolve_prediction: <<self, returned>>
resolve_prediction(s, prediction_id) ==
    IF prediction_id \in s.pending_predictions
    THEN <<[s EXCEPT !.resolved_predictions = @ \cup {prediction_id}], "True">>
    ELSE <<s, "False">>

\* ------------------------------------------------------------------ events
\* _handle_emergency_event assigning to the aircraft it did not find, which
\* raises AttributeError
handle_emergency_event_unguarded(s, event) ==
    IF event.target \in DOMAIN s.aircraft
    THEN [s EXCEPT !.aircraft[event.target].emergency = TRUE]
    ELSE [s EXCEPT !.raised = TRUE]

handle_emergency_event(s, event) ==
    IF event.target \in DOMAIN s.aircraft
    THEN [s EXCEPT !.aircraft[event.target].emergency = TRUE]
    ELSE s

\* the handler stamping the measurement with the scripted time of the event
handle_comm_loss_event_scripted_time(s, event) ==
    IF event.target \in DOMAIN s.aircraft
    THEN [s EXCEPT
            !.aircraft[event.target].comm_status =
                IF "comm_status" \in DOMAIN event.data THEN event.data.comm_status ELSE "lost",
            !.aircraft[event.target].datalink_status =
                IF "datalink_status" \in DOMAIN event.data
                THEN event.data.datalink_status ELSE "lost",
            !.measurements =
                SetMeasurement(@, Fmt2(Fmt2(event.target, comm_loss), <<"detection">>),
                    [loss_time |-> event.time_offset,
                     detected_time |-> None,
                     resolved_time |-> None,
                     detection_delay |-> None,
                     resolution_delay |-> None])]
    ELSE s

handle_comm_loss_event(s, event) ==
    IF event.target \in DOMAIN s.aircraft
    THEN [s EXCEPT
            !.aircraft[event.target].comm_status =
                IF "comm_status" \in DOMAIN event.data THEN event.data.comm_status ELSE "lost",
            !.aircraft[event.target].datalink_status =
                IF "datalink_status" \in DOMAIN event.data
                THEN event.data.datalink_status ELSE "lost",
            !.measurements =
                SetMeasurement(@, Fmt2(Fmt2(event.target, comm_loss), <<"detection">>),
                    [loss_time |-> s.elapsed_time,
                     detected_time |-> None,
                     resolved_time |-> None,
                     detection_delay |-> None,
                     resolution_delay |-> None])]
    ELSE s

handle_weather_event(s, event) ==
    IF "priority" \in DOMAIN event.data /\ event.data.priority \in {"high", "critical"}
    THEN register_measurement(s, weather, system)
    ELSE s

handle_altitude_deviation_event(s, event) ==
    LET s1 == register_measurement(s, altitude_deviation, event.target)
    IN  IF event.target \in DOMAIN s.aircraft
        THEN [s1 EXCEPT !.aircraft[event.target].altitude = event.data.actual_altitude]
        ELSE s1

handle_conflict_event(s, event) ==
    LET aircraft1 == IF "aircraft_1" \in DOMAIN event.data THEN event.data.aircraft_1
                     ELSE event.target
        aircraft2 == IF "aircraft_2" \in DOMAIN event.data THEN event.data.aircraft_2
                     ELSE <<>>
    IN  [s EXCEPT !.measurements =
            SetMeasurement(@,
                Fmt2(Fmt2(Fmt2(aircraft1, aircraft2), conflict), <<"resolution">>),
                [conflict_time |-> s.elapsed_time,
                 detected_time |-> None,
                 resolved_time |-> None,
                 detection_delay |-> None,
                 resolution_delay |-> None])]

\* _handle_internal_event for the actions that modify an aircraft
handle_internal_event(s, event) ==
    IF event.target \notin DOMAIN s.aircraft THEN s
    ELSE CASE event.data.action = "modify_altitude" ->
                [s EXCEPT !.aircraft[event.target].altitude = event.data.new_altitude]
           [] event.data.action = "modify_heading" ->
                [s EXCEPT !.aircraft[event.target].heading = event.data.new_heading]
           [] event.data.action = "modify_speed" ->
                [s EXCEPT !.aircraft[event.target].speed = event.data.new_speed]
           [] OTHER -> s

handle_ml_prediction_event(s, event) ==
    IF s.condition # 3 THEN s
    ELSE LET prediction_id == PredictionId(event.target, event.data.predicted_event)
             s1 == [s EXCEPT !.pending_predictions = @ \cup {prediction_id}]
         IN  generate_alert(s1, ml_prediction, event.target,
                 [priority |-> "medium", message |-> "ML predicts", is_prediction |-> TRUE])[1]

\* _trigger_event looking the handler up with self._event_handlers[type]: a
\* type without handler raises KeyError
trigger_event_indexed(s, event) ==
    CASE event.event_type = emergency -> handle_emergency_event(s, event)
      [] event.event_type = comm_loss -> handle_comm_loss_event(s, event)
      [] event.event_type = phase_transition -> s
      [] event.event_type = weather -> handle_weather_event(s, event)
      [] event.event_type = altitude_deviation -> handle_altitude_deviation_event(s, event)
      [] event.event_type = conflict -> handle_conflict_event(s, event)
      [] event.event_type = ml_prediction -> handle_ml_prediction_event(s, event)
      [] OTHER -> [s EXCEPT !.raised = TRUE]

\* _trigger_event: the handler registered for the event's type, if any;
\* faulty_event has a handler added with register_handler, which raises
trigger_event(s, event) ==
    CASE event.event_type = emergency -> handle_emergency_event(s, event)
      [] event.event_type = comm_loss -> handle_comm_loss_event(s, event)
      [] event.event_type = phase_transition -> s
      [] event.event_type = weather -> handle_weather_event(s, event)
      [] event.event_type = altitude_deviation -> handle_altitude_deviation_event(s, event)
      [] event.event_type = conflict -> handle_conflict_event(s, event)
      [] event.event_type = ml_prediction -> handle_ml_prediction_event(s, event)
      [] event.event_type = internal -> handle_internal_event(s, event)
      [] event.event_type = faulty_event -> [s EXCEPT !.raised = TRUE]
      [] OTHER -> s

\* the test with a strict comparison: an item due exactly now is left for later
IsDueStrictlyLater(item, t) == ~item.triggered /\ t > item.time_offset

\* the test of _check_and_trigger_events and of _check_sagat_probes
IsDue(item, t) == ~item.triggered /\ t >= item.time_offset

\* _check_and_trigger_events from event i on: <<self, indices of the events
\* returned>>; an exception of a handler leaves the loop
RECURSIVE check_and_trigger_from(_, _, _)
check_and_trigger_from(s, i, triggered) ==
    IF i > Len(s.events) THEN <<s, triggered>>
    ELSE IF IsDue(s.events[i], s.elapsed_time)
         THEN LET handled == trigger_event([s EXCEPT !.events[i].triggered = TRUE],
                                           s.events[i])
              IN  IF handled.raised THEN <<handled, triggered>>
                  ELSE check_and_trigger_from(handled, i + 1, Append(triggered, i))
         ELSE check_and_trigger_from(s, i + 1, triggered)

check_and_trigger_events(s) == check_and_trigger_from(s, 1, <<>>)

\* _check_sagat_probes: <<self, indices of the probes returned>>
check_sagat_probes(s) ==
    LET due == {i \in 1..Len(s.sagat_probes) : IsDue(s.sagat_probes[i], s.elapsed_time)}
    IN  <<[s EXCEPT !.sagat_probes =
              [i \in 1..Len(@) |-> IF i \in due THEN [@[i] EXCEPT !.triggered = TRUE] ELSE @[i]]],
          due>>

\* ------------------------------------------------------------------ alert lifecycle in update
\* resolve_emergency_by_action(callsign, action_id): <<self, returned>>
resolving_actions ==
    {<<"priority", "_", "landing">>, <<"emergency", "_", "landing">>,
     <<"clear", "_", "to", "_", "land">>, <<"grant", "_", "priority">>,
     <<"emergency", "_", "clearance">>, <<"priority", "_", "clearance">>,
     <<"grant", "_", "priority", "_", "landing", "_", "clearance">>}

\* action_id.lower().replace(' ', '_').replace('-', '_')
action_lower(action_id) ==
    [i \in 1..Len(action_id) |->
        CASE action_id[i] \in {" ", "-"} -> "_"
          [] action_id[i] = "Grant" -> "grant"
          [] action_id[i] = "PRIORITY" -> "priority"
          [] OTHER -> action_id[i]]

resolve_emergency_by_action(s, callsign, action_id) ==
    IF callsign \notin DOMAIN s.aircraft \/ ~s.aircraft[callsign].emergency
    THEN <<s, "False">>
    ELSE IF \/ action_lower(action_id) \in resolving_actions
            \/ Contains(<<"priority">>, action_lower(action_id))
            \/ Contains(<<"emergency">>, action_lower(action_id))
    THEN <<[s EXCEPT !.aircraft[callsign].emergency = FALSE], "True">>
    ELSE <<s, "False">>

\* should_resolve of _check_alert_resolution with the emergency branch left out
ShouldResolveCommOnly(s, alert) ==
    /\ alert.target \in DOMAIN s.aircraft
    /\ alert.type = comm_loss /\ s.aircraft[alert.target].comm_status = "normal"

\* should_resolve of _check_alert_resolution
ShouldResolve(s, alert) ==
    /\ alert.target \in DOMAIN s.aircraft
    /\ \/ alert.type = comm_loss /\ s.aircraft[alert.target].comm_status = "normal"
       \/ alert.type = emergency /\ ~s.aircraft[alert.target].emergency

\* _check_alert_resolution over list(self.active_alerts.items()) from index i
\* of that snapshot: <<self, resolved ids>>
RECURSIVE check_alert_resolution_from(_, _, _, _)
check_alert_resolution_from(s, snapshot, i, resolved_ids) ==
    IF i > Len(snapshot) THEN <<s, resolved_ids>>
    ELSE IF ShouldResolve(s, snapshot[i])
         THEN check_alert_resolution_from(resolve_alert(s, snapshot[i].alert_id)[1],
                  snapshot, i + 1, Append(resolved_ids, snapshot[i].alert_id))
         ELSE check_alert_resolution_from(s, snapshot, i + 1, resolved_ids)

check_alert_resolution(s) == check_alert_resolution_from(s, s.active_alerts, 1, <<>>)

REEMIT_INTERVAL == 15 * TicksPerSecond

\* the test of _check_alert_reemission, acknowledged alerts not skipped
ReemitDueAcknowledged(alert, t) ==
    t - (IF IsNone(alert.last_emitted_at) THEN alert.generated_at
         ELSE Val(alert.last_emitted_at)) >= REEMIT_INTERVAL

\* the test of _check_alert_reemission for one active alert
ReemitDue(alert, t) ==
    /\ IsNone(alert.acknowledged_at)
    /\ t - (IF IsNone(alert.last_emitted_at) THEN alert.generated_at
            ELSE Val(alert.last_emitted_at)) >= REEMIT_INTERVAL

\* _check_alert_reemission: <<self, the copies of the alerts re-emitted>>
check_alert_reemission(s) ==
    IF s.condition # 1 THEN <<s, <<>>>>
    ELSE LET due == {i \in 1..Len(s.active_alerts) : ReemitDue(s.active_alerts[i], s.elapsed_time)}
             stamped == [i \in 1..Len(s.active_alerts) |->
                            IF i \in due
                            THEN [s.active_alerts[i] EXCEPT
                                     !.last_emitted_at = Some(s.elapsed_time),
                                     !.reemit_count = @ + 1]
                            ELSE s.active_alerts[i]]
             RECURSIVE alerts_to_reemit(_)
             alerts_to_reemit(i) ==
                 IF i > Len(stamped) THEN <<>>
                 ELSE (IF i \in due
                       THEN <<[is_reemit |-> TRUE, suppress_audio |-> TRUE] @@ stamped[i]>>
                       ELSE <<>>) \o alerts_to_reemit(i + 1)
         IN  <<[s EXCEPT !.active_alerts = stamped], alerts_to_reemit(1)>>

\* the phase table of ScenarioL1.get_scenario_info
L1Phases ==
    <<[phase |-> 1, start |-> 0, end |-> 36 * TicksPerSecond],
      [phase |-> 2, start |-> 36 * TicksPerSecond, end |-> 156 * TicksPerSecond],
      [phase |-> 3, start |-> 156 * TicksPerSecond, end |-> 360 * TicksPerSecond]>>

\* ScenarioL1._update_current_phase with inclusive thresholds
update_current_phase_inclusive(s) ==
    IF s.scenario_id # "L1" THEN s
    ELSE [s EXCEPT !.current_phase =
             IF s.elapsed_time <= 36 * TicksPerSecond THEN 0
             ELSE IF s.elapsed_time <= 156 * TicksPerSecond THEN 1
             ELSE 2]

\* _update_current_phase: of ScenarioL1 for scenario L1; the other scripts are
\* run on the base class, whose method is empty
update_current_phase(s) ==
    IF s.scenario_id # "L1" THEN s
    ELSE [s EXCEPT !.current_phase =
             IF s.elapsed_time < 36 * TicksPerSecond THEN 0
             ELSE IF s.elapsed_time < 156 * TicksPerSecond THEN 1
             ELSE 2]

\* the longest time one update moves the aircraft for: 5 seconds
MaxEffectiveDt == 5 * TicksPerSecond

\* the positions moved for all of dt
update_aircraft_positions_unclamped(fleet, dt) ==
    [c \in DOMAIN fleet |->
        [fleet[c] EXCEPT !.position =
            <<@[1] + fleet[c].speed * sin(fleet[c].heading) * dt,
              @[2] + fleet[c].speed * cos(fleet[c].heading) * dt>>]]

\* _update_aircraft_positions(dt): every aircraft moves along its heading by
\* its speed times min(dt, 5 s); a position is in units of
\* 1 / (3600 * TicksPerSecond) nm, the way a knot makes in one tick
update_aircraft_positions(fleet, dt) ==
    LET effective_dt == min(dt, MaxEffectiveDt)
    IN  [c \in DOMAIN fleet |->
            [fleet[c] EXCEPT !.position =
                <<@[1] + fleet[c].speed * sin(fleet[c].heading) * effective_dt,
                  @[2] + fleet[c].speed * cos(fleet[c].heading) * effective_dt>>]]

\* update() once started and not paused, with t = (now - start_time):
\* <<self, the result returned>>, the result being [status |-> "raised"] when
\* an exception leaves update(); dt is the time since self.last_elapsed_time
update(s, t) ==
    LET s0 == [s EXCEPT !.elapsed_time = t]
        ev == check_and_trigger_events(s0)
        pr == check_sagat_probes(ev[1])
        mv == [pr[1] EXCEPT !.aircraft = update_aircraft_positions(@, t - last_elapsed_time)]
        ph == update_current_phase(mv)
        rs == check_alert_resolution(ph)
        re == check_alert_reemission(rs[1])
    IN  IF ev[1].raised THEN <<ev[1], [status |-> "raised"]>>
        ELSE
        <<re[1],
          [status |-> "ok",
           current_phase |-> ph.current_phase,
           triggered_events |-> ev[2],
           triggered_probes |-> pr[2],
           resolved_alerts |-> rs[2],
           reemit_alerts |-> re[2]]>>

\* ------------------------------------------------------------------ scenario scripts
ScenarioEvent(time_offset, event_type, target, data) ==
    [time_offset |-> time_offset, event_type |-> event_type, target |-> target,
     data |-> data, triggered |-> FALSE]

SAGATProbe(time_offset) == [time_offset |-> time_offset, triggered |-> FALSE]

Aircraft(altitude) ==
    [emergency |-> FALSE, comm_status |-> "normal", datalink_status |-> "normal",
     altitude |-> altitude, heading |-> 90, speed |-> 250, position |-> <<0, 0>>]

Seconds(n) == n * TicksPerSecond

\* ScenarioL1._schedule_events, _setup_sagat_probes and _initialize_aircraft
L1Events ==
    <<ScenarioEvent(Seconds(36), phase_transition, system, [phase |-> 2]),
      ScenarioEvent(Seconds(36), emergency, UAL238, [priority |-> "critical"]),
      ScenarioEvent(Seconds(156), phase_transition, system, [phase |-> 3]),
      ScenarioEvent(Seconds(156), comm_loss, AAL119,
          [comm_status |-> "lost", datalink_status |-> "lost", priority |-> "high"])>>

L1Probes == <<SAGATProbe(Seconds(60)), SAGATProbe(Seconds(138)), SAGATProbe(Seconds(168))>>

L1Aircraft ==
    [c \in {UAL238, <<"SWA456">>, <<"DAL789">>, AAL119, <<"JBU321">>} |->
        Aircraft(CASE c = UAL238 -> 280
                   [] c = <<"SWA456">> -> 300
                   [] c = <<"DAL789">> -> 320
                   [] c = AAL119 -> 310
                   [] OTHER -> 290)]

\* a scenario built with add_aircraft, add_event and add_sagat_probe whose
\* events fall within the first ticks; events are listed in time order
ShortEvents ==
    <<ScenarioEvent(0, weather, system, [priority |-> "high"]),
      ScenarioEvent(1, ml_prediction, AAL119, [predicted_event |-> comm_loss]),
      ScenarioEvent(1, emergency, UAL238, [priority |-> "critical"]),
      ScenarioEvent(2, comm_loss, AAL119, [priority |-> "high"]),
      ScenarioEvent(2, custom_event, system, [priority |-> "low"]),
      ScenarioEvent(3, conflict, AAL11, [aircraft_1 |-> AAL11, aircraft_2 |-> UAL238]),
      ScenarioEvent(3, altitude_deviation, N123AB, [actual_altitude |-> 250]),
      ScenarioEvent(MaxNow, comm_loss, AAL119, [priority |-> "high"])>>

ShortProbes == <<SAGATProbe(1), SAGATProbe(3)>>

ShortAircraft == [c \in {AAL119, AAL11, UAL238} |-> Aircraft(300)]

\* a scenario whose script is an ML prediction of a comm loss and an emergency
AlertEvents ==
    <<ScenarioEvent(0, ml_prediction, AAL119, [predicted_event |-> comm_loss]),
      ScenarioEvent(Seconds(1), emergency, UAL238, [priority |-> "critical"])>>

\* a scenario whose script is one comm loss
MeasurementEvents == <<ScenarioEvent(1, comm_loss, AAL119, [priority |-> "high"])>>

\* a scenario with a handler that raises, other events and a probe being due
\* in the same update and later
FaultyEvents ==
    <<ScenarioEvent(1, emergency, UAL238, [priority |-> "critical"]),
      ScenarioEvent(1, faulty_event, system, [priority |-> "low"]),
      ScenarioEvent(1, comm_loss, AAL119, [priority |-> "high"]),
      ScenarioEvent(2, comm_loss, AAL11, [priority |-> "high"]),
      ScenarioEvent(3, conflict, AAL11, [aircraft_1 |-> AAL11, aircraft_2 |-> UAL238])>>

\* a scenario whose events name an aircraft that is in the aircraft set
\* (AAL119) and one that is not (N123AB)
MissingEvents ==
    <<ScenarioEvent(0, emergency, N123AB, [priority |-> "critical"]),
      ScenarioEvent(1, comm_loss, N123AB, [priority |-> "high"]),
      ScenarioEvent(1, internal, AAL119, [action |-> "modify_speed", new_speed |-> 300]),
      ScenarioEvent(2, internal, N123AB, [action |-> "modify_altitude", new_altitude |-> 100]),
      ScenarioEvent(2, internal, N123AB, [action |-> "modify_heading", new_heading |-> 180]),
      ScenarioEvent(2, comm_loss, AAL119, [priority |-> "high"]),
      ScenarioEvent(3, internal, N123AB, [action |-> "modify_speed", new_speed |-> 300]),
      ScenarioEvent(3, altitude_deviation, AAL119, [actual_altitude |-> 250]),
      ScenarioEvent(MaxNow, altitude_deviation, N123AB, [actual_altitude |-> 250])>>

\* what initialize() of the scenario class leaves in aircraft, events and probes
Script(id) ==
    CASE id = "L1" -> [aircraft |-> L1Aircraft, events |-> L1Events, probes |-> L1Probes]
      [] id = "alerts" ->
            [aircraft |-> ShortAircraft, events |-> AlertEvents, probes |-> <<>>]
      [] id = "measurements" ->
            [aircraft |-> ShortAircraft, events |-> MeasurementEvents, probes |-> <<>>]
      [] id = "faulty" ->
            [aircraft |-> ShortAircraft, events |-> FaultyEvents, probes |-> ShortProbes]
      [] id = "missing" ->
            [aircraft |-> ShortAircraft, events |-> MissingEvents, probes |-> ShortProbes]
      [] OTHER -> [aircraft |-> ShortAircraft, events |-> ShortEvents, probes |-> ShortProbes]

\* ------------------------------------------------------------------ the standalone simulator
\* Positions are in tenths of a nautical mile north (lat) and east (lon)
\* of a reference point, altitudes in feet, headings in degrees, speeds in
\* knots, the simulated time and every dt in hundredths of a second, the
\* clock of the event loop in tenths of a second, and the speed multiplier
\* in tenths (10 is 1.0x).
MIN_HORIZONTAL_SEPARATION_NM == 30

MIN_VERTICAL_SEPARATION_FT == 1000

ALTITUDE_CHANGE_RATE_FPM == 2000

\* the square root, to the whole number below
sqrt(n) == CHOOSE r \in 0..n : r * r <= n /\ (r + 1) * (r + 1) > n

\* great-circle distance of two positions; at the scale of the separation
\* minima it is the length of the straight line between them
calculate_distance_nm(lat1, lon1, lat2, lon2) ==
    LET dlat == lat2 - lat1
        dlon == lon2 - lon1
    IN  sqrt(dlat * dlat + dlon * dlon)

\* check_conflict with its vertical separation left signed
check_conflict_signed(ac1, ac2) ==
    LET horizontal_sep == calculate_distance_nm(ac1.lat, ac1.lon, ac2.lat, ac2.lon)
        vertical_sep == ac1.altitude - ac2.altitude
    IN  IF horizontal_sep < MIN_HORIZONTAL_SEPARATION_NM
           /\ vertical_sep < MIN_VERTICAL_SEPARATION_FT
        THEN Some([callsign1 |-> ac1.callsign,
                   callsign2 |-> ac2.callsign,
                   horizontal_separation_nm |-> horizontal_sep,
                   vertical_separation_ft |-> vertical_sep,
                   time_to_closest |-> 0,
                   severity |->
                       IF horizontal_sep < 10 /\ vertical_sep < 500 THEN "critical"
                       ELSE IF horizontal_sep < 20 /\ vertical_sep < 750 THEN "alert"
                       ELSE "warning"])
        ELSE None

\* check_conflict with the minima themselves counted as a loss of separation
check_conflict_inclusive(ac1, ac2) ==
    LET horizontal_sep == calculate_distance_nm(ac1.lat, ac1.lon, ac2.lat, ac2.lon)
        vertical_sep == abs(ac1.altitude - ac2.altitude)
    IN  IF horizontal_sep <= MIN_HORIZONTAL_SEPARATION_NM
           /\ vertical_sep <= MIN_VERTICAL_SEPARATION_FT
        THEN Some([callsign1 |-> ac1.callsign,
                   callsign2 |-> ac2.callsign,
                   horizontal_separation_nm |-> horizontal_sep,
                   vertical_separation_ft |-> vertical_sep,
                   time_to_closest |-> 0,
                   severity |->
                       IF horizontal_sep < 10 /\ vertical_sep < 500 THEN "critical"
                       ELSE IF horizontal_sep < 20 /\ vertical_sep < 750 THEN "alert"
                       ELSE "warning"])
        ELSE None

\* check_conflict(ac1, ac2): the Conflict of the two aircraft, if they have
\* lost separation
check_conflict(ac1, ac2) ==
    LET horizontal_sep == calculate_distance_nm(ac1.lat, ac1.lon, ac2.lat, ac2.lon)
        vertical_sep == abs(ac1.altitude - ac2.altitude)
    IN  IF horizontal_sep < MIN_HORIZONTAL_SEPARATION_NM
           /\ vertical_sep < MIN_VERTICAL_SEPARATION_FT
        THEN Some([callsign1 |-> ac1.callsign,
                   callsign2 |-> ac2.callsign,
                   horizontal_separation_nm |-> horizontal_sep,
                   vertical_separation_ft |-> vertical_sep,
                   time_to_closest |-> 0,
                   severity |->
                       IF horizontal_sep < 10 /\ vertical_sep < 500 THEN "critical"
                       ELSE IF horizontal_sep < 20 /\ vertical_sep < 750 THEN "alert"
                       ELSE "warning"])
        ELSE None

\* detect_all_conflicts(aircraft_list): each aircraft against those after it
RECURSIVE detect_all_conflicts(_)
detect_all_conflicts(aircraft_list) ==
    LET RECURSIVE against(_, _)
        against(ac1, rest) ==
            IF rest = <<>> THEN <<>>
            ELSE check_conflict(ac1, Head(rest)) \o against(ac1, Tail(rest))
    IN  IF aircraft_list = <<>> THEN <<>>
        ELSE against(Head(aircraft_list), Tail(aircraft_list))
                 \o detect_all_conflicts(Tail(aircraft_list))

\* SimulationEngine(tick_rate=1.0), as the server constructs it; aircraft is
\* the dict in insertion order, event_handlers the list of the "tick" event,
\* task the handle of the loop task
SimulationEngine ==
    [aircraft |-> <<>>, conflicts |-> <<>>, running |-> FALSE, paused |-> FALSE,
     tick_rate |-> 10, sim_time |-> 0, speed_multiplier |-> 10,
     event_handlers |-> <<>>, task |-> None]

\* the event loop before anything is scheduled on it: its clock, the tasks
\* created on it (with the iterations each has skipped), the stop() calls
\* waiting for a task, whether start() has been called since the last call
\* of stop(), the handlers that have raised in a broadcast, and what the last
\* step did
EventLoop ==
    [time |-> 0, tasks |-> <<>>, stops |-> <<>>, started |-> FALSE, raised |-> {},
     last |-> [kind |-> "none"]]

\* Aircraft.from_config(config)
from_config(config) ==
    [callsign |-> config.callsign, lat |-> config.lat, lon |-> config.lon,
     altitude |-> config.altitude, heading |-> config.heading, speed |-> config.speed,
     target_altitude |-> IF "target_altitude" \in DOMAIN config
                         THEN Some(config.target_altitude) ELSE None,
     target_heading |-> IF "target_heading" \in DOMAIN config
                        THEN Some(config.target_heading) ELSE None,
     target_speed |-> IF "target_speed" \in DOMAIN config
                      THEN Some(config.target_speed) ELSE None,
     vertical_rate |-> 0]

IndexOf(fleet, callsign) ==
    {i \in 1..Len(fleet) : fleet[i].callsign = callsign}

\* self.aircraft[ac.callsign] = ac
SetAircraft(fleet, ac) ==
    IF IndexOf(fleet, ac.callsign) = {} THEN Append(fleet, ac)
    ELSE [i \in 1..Len(fleet) |->
             IF fleet[i].callsign = ac.callsign THEN ac ELSE fleet[i]]

\* load_scenario(aircraft_config)
load_scenario(e, aircraft_config) ==
    LET RECURSIVE loaded(_, _)
        loaded(fleet, configs) ==
            IF configs = <<>> THEN fleet
            ELSE loaded(SetAircraft(fleet, from_config(Head(configs))), Tail(configs))
    IN  [e EXCEPT !.aircraft = loaded(<<>>, aircraft_config),
                  !.conflicts = <<>>,
                  !.sim_time = 0]

\* add_aircraft(config)
add_aircraft(e, config) ==
    [e EXCEPT !.aircraft = SetAircraft(e.aircraft, from_config(config))]

\* remove_aircraft(callsign)
remove_aircraft(e, callsign) ==
    [e EXCEPT !.aircraft = SelectSeq(e.aircraft, LAMBDA ac : ac.callsign # callsign)]

\* command_aircraft(callsign, altitude, heading, speed), each of the three optional
command_aircraft(e, callsign, altitude, heading, speed) ==
    [e EXCEPT !.aircraft =
        [i \in 1..Len(e.aircraft) |->
            IF e.aircraft[i].callsign # callsign THEN e.aircraft[i]
            ELSE [e.aircraft[i] EXCEPT
                    !.target_altitude = IF IsNone(altitude) THEN @ ELSE altitude,
                    !.target_heading =
                        IF IsNone(heading) THEN @ ELSE Some(Val(heading) % 360),
                    !.target_speed =
                        IF IsNone(speed) THEN @
                        ELSE Some(IF Val(speed) < 150 THEN 150
                                  ELSE IF Val(speed) > 500 THEN 500 ELSE Val(speed))]]]

\* _update_aircraft_position(ac, dt): heading and speed snap to their
\* targets, the altitude moves at 2000 ft a minute, the position by speed * dt
update_aircraft_position(ac, dt) ==
    LET heading == IF IsNone(ac.target_heading) THEN ac.heading
                   ELSE Val(ac.target_heading)
        speed == IF IsNone(ac.target_speed) THEN ac.speed
                 ELSE Val(ac.target_speed)
        climbing == ~IsNone(ac.target_altitude)
        alt_diff == IF climbing THEN Val(ac.target_altitude) - ac.altitude ELSE 0
        max_change == (ALTITUDE_CHANGE_RATE_FPM * dt) \div 6000
        arrives == abs(alt_diff) * 6000 <= ALTITUDE_CHANGE_RATE_FPM * dt
        distance_nm == (speed * dt) \div 36000
    IN  [ac EXCEPT
            !.heading = heading,
            !.target_heading = None,
            !.speed = speed,
            !.target_speed = None,
            !.altitude = IF ~climbing THEN @
                         ELSE IF arrives THEN Val(ac.target_altitude)
                         ELSE IF alt_diff > 0 THEN @ + max_change ELSE @ - max_change,
            !.target_altitude = IF climbing /\ arrives THEN None ELSE @,
            !.vertical_rate = IF ~climbing \/ arrives THEN 0
                              ELSE IF alt_diff > 0 THEN ALTITUDE_CHANGE_RATE_FPM
                              ELSE 0 - ALTITUDE_CHANGE_RATE_FPM,
            !.lat = @ + distance_nm * cos(heading),
            !.lon = @ + distance_nm * sin(heading)]

\* physics.py: degrees a second, feet a minute, knots a second
STANDARD_TURN_RATE == 3
STANDARD_CLIMB_RATE == 2000
STANDARD_DESCENT_RATE == 1500
SPEED_CHANGE_RATE == 5

\* physics.normalize_heading(heading)
normalize_heading(heading) == heading % 360

\* physics.heading_difference(from_hdg, to_hdg): negative for a left turn
heading_difference(from_hdg, to_hdg) ==
    LET diff == normalize_heading(to_hdg) - normalize_heading(from_hdg)
    IN  IF diff > 180 THEN diff - 360 ELSE IF diff < 0 - 180 THEN diff + 360 ELSE diff

\* physics.update_aircraft_position(aircraft, dt) for dt > 0: heading, speed
\* and altitude move toward their targets at the standard rates. The rate of
\* the last climb or descent step is alt_diff * 60 / dt, and alt_change the
\* floating-point product of that rate, 1/60 and dt: rounding can leave it
\* short of alt_diff, which is the outcome short; the test for the landing
\* then fails and altitude += alt_change rounds to the target
physics_update_aircraft_position(ac, dt, short) ==
    LET turning == ~IsNone(ac.target_heading)
        hdg_diff == IF turning THEN heading_difference(ac.heading, Val(ac.target_heading))
                    ELSE 0
        max_turn == (STANDARD_TURN_RATE * dt) \div 100
        turned == abs(hdg_diff) * 100 <= STANDARD_TURN_RATE * dt
        heading == IF ~turning THEN ac.heading
                   ELSE IF turned THEN Val(ac.target_heading)
                   ELSE normalize_heading(
                            ac.heading + (IF hdg_diff > 0 THEN max_turn ELSE 0 - max_turn))
        changing == ~IsNone(ac.target_speed)
        speed_diff == IF changing THEN Val(ac.target_speed) - ac.speed ELSE 0
        max_change == (SPEED_CHANGE_RATE * dt) \div 100
        changed == abs(speed_diff) * 100 <= SPEED_CHANGE_RATE * dt
        speed == IF ~changing THEN ac.speed
                 ELSE IF changed THEN Val(ac.target_speed)
                 ELSE ac.speed + (IF speed_diff > 0 THEN max_change ELSE 0 - max_change)
        climbing == ~IsNone(ac.target_altitude)
        alt_diff == IF climbing THEN Val(ac.target_altitude) - ac.altitude ELSE 0
        rate == IF alt_diff > 0
                THEN min(STANDARD_CLIMB_RATE, (alt_diff * 6000) \div dt)
                ELSE min(STANDARD_DESCENT_RATE, (abs(alt_diff) * 6000) \div dt)
        vertical_rate == IF alt_diff > 0 THEN rate ELSE 0 - rate
        within == IF alt_diff > 0 THEN alt_diff * 6000 <= STANDARD_CLIMB_RATE * dt
                  ELSE abs(alt_diff) * 6000 <= STANDARD_DESCENT_RATE * dt
        alt_change == IF within THEN alt_diff ELSE (vertical_rate * dt) \div 6000
        arrives == within /\ ~(short /\ alt_diff # 0)
        distance_nm == (speed * dt) \div 36000
    IN  [ac EXCEPT
            !.heading = heading,
            !.target_heading = IF turning /\ turned THEN None ELSE @,
            !.speed = speed,
            !.target_speed = IF changing /\ changed THEN None ELSE @,
            !.altitude = IF ~climbing THEN @
                         ELSE IF arrives THEN Val(ac.target_altitude)
                         ELSE @ + alt_change,
            !.target_altitude = IF climbing /\ arrives THEN None ELSE @,
            !.vertical_rate = IF ~climbing \/ arrives THEN 0 ELSE vertical_rate,
            !.lat = @ + distance_nm * cos(heading),
            !.lon = @ + distance_nm * sin(heading)]

\* tick(dt)
tick(e, dt) ==
    LET moved == [i \in 1..Len(e.aircraft) |-> update_aircraft_position(e.aircraft[i], dt)]
    IN  [e EXCEPT !.aircraft = moved,
                  !.conflicts = detect_all_conflicts(moved),
                  !.sim_time = @ + dt]

\* set_speed(multiplier): kept within 0.1x and 10x
set_speed(e, multiplier) ==
    [e EXCEPT !.speed_multiplier =
        IF multiplier > 100 THEN 100 ELSE IF multiplier < 1 THEN 1 ELSE multiplier]

\* pause() ending the loop as well
pause_stopping(e) == [e EXCEPT !.paused = TRUE, !.running = FALSE]

\* pause() and resume()
pause(e) == [e EXCEPT !.paused = TRUE]

resume(e) == [e EXCEPT !.paused = FALSE]

\* add_event_handler("tick", handler) and remove_event_handler("tick", handler)
add_event_handler(e, handler) ==
    [e EXCEPT !.event_handlers = Append(@, handler)]

remove_event_handler(e, handler) ==
    LET at == {i \in 1..Len(e.event_handlers) : e.event_handlers[i] = handler}
        first == CHOOSE i \in at : \A j \in at : i <= j
    IN  IF at = {} THEN e
        ELSE [e EXCEPT !.event_handlers =
                 SubSeq(@, 1, first - 1) \o SubSeq(@, first + 1, Len(@))]

\* _emit_event with no try around the call of a handler
RECURSIVE emit_event_unguarded(_, _, _)
emit_event_unguarded(e, failing, i) ==
    IF i > Len(e.event_handlers)
    THEN [invoked |-> <<>>, logged |-> <<>>, escaped |-> FALSE]
    ELSE IF i \in failing
    THEN [invoked |-> <<i>>, logged |-> <<>>, escaped |-> TRUE]
    ELSE LET rest == emit_event_unguarded(e, failing, i + 1)
         IN  [rest EXCEPT !.invoked = <<i>> \o @]

\* _emit_event("tick", data) from the i-th handler on, where the handlers at
\* the positions in failing raise: which handlers were invoked, which
\* exceptions were logged, and whether one left _emit_event
RECURSIVE emit_event(_, _, _)
emit_event(e, failing, i) ==
    IF i > Len(e.event_handlers)
    THEN [invoked |-> <<>>, logged |-> <<>>, escaped |-> FALSE]
    ELSE LET rest == emit_event(e, failing, i + 1)
         IN  [rest EXCEPT !.invoked = <<i>> \o @,
                          !.logged = IF i \in failing THEN <<i>> \o @ ELSE @]

\* ------------------------------------------------------------------ operations
Conditions == {1, 2, 3}

InitOf(id) ==
    /\ scenario_id = id
    /\ condition \in Conditions
    /\ now = 0
    /\ start_time = None
    /\ paused = FALSE
    /\ elapsed_time = 0
    /\ last_elapsed_time = 0
    /\ aircraft = <<>>
    /\ events = <<>>
    /\ sagat_probes = <<>>
    /\ measurements = <<>>
    /\ active_alerts = <<>>
    /\ alert_history = <<>>
    /\ suppressed_alerts = <<>>
    /\ resolved_predictions = {}
    /\ pending_predictions = {}
    /\ update_result = [status |-> "none"]
    /\ event_returns = <<>>
    /\ probe_returns = <<>>
    /\ calls_made = [generate |-> 0, measurement |-> 0]
    /\ current_phase = 0
    /\ requested = None
    /\ response = [code |-> 0]
    /\ engine = SimulationEngine
    /\ loop = EventLoop

Init == InitOf("short")

InitL1 == InitOf("L1")

InitAlerts == InitOf("alerts")

InitMeasurements == InitOf("measurements")

InitFaults == InitOf("faulty")

InitMissing == InitOf("missing")

\* start(): initialize() and the first reading of the clock
Start ==
    /\ IsNone(start_time)
    /\ start_time' = Some(now)
    /\ aircraft' = Script(scenario_id).aircraft
    /\ events' = Script(scenario_id).events
    /\ sagat_probes' = Script(scenario_id).probes
    /\ event_returns' = [i \in 1..Len(events') |-> 0]
    /\ probe_returns' = [i \in 1..Len(sagat_probes') |-> 0]
    /\ UNCHANGED <<sim_vars, scenario_id, condition, now, paused, elapsed_time, last_elapsed_time,
                   update_result,
                   measurements, active_alerts, alert_history, suppressed_alerts,
                   resolved_predictions, pending_predictions, calls_made,
                   current_phase, requested, response>>

NonClock ==
    <<sim_vars, scenario_id, condition, start_time, paused, elapsed_time, last_elapsed_time,
      aircraft, events, sagat_probes, measurements, active_alerts, alert_history,
      suppressed_alerts, resolved_predictions, pending_predictions, update_result,
      event_returns, probe_returns, calls_made, current_phase, requested, response>>

\* the wall clock advances; only its distance from start_time is ever read,
\* so it is left at 0 until start()
TickBy(steps, max) ==
    /\ ~IsNone(start_time)
    /\ \E d \in steps : now + d <= max /\ now' = now + d
    /\ UNCHANGED NonClock

Tick == TickBy({1, 2}, MaxNow)

\* the clock seen at whole seconds only
TickAlerts == TickBy({TicksPerSecond}, MaxAlertNow)

TickMeasurements == TickBy({1}, MaxMeasurementNow)

\* the clock readings at which scenario L1 is polled
L1Polls == {Seconds(30), Seconds(40), Seconds(150), Seconds(156), Seconds(160),
            Seconds(170), Seconds(180)}

TickL1 ==
    /\ ~IsNone(start_time)
    /\ \E t \in L1Polls : t > now /\ now' = t
    /\ UNCHANGED NonClock

Outside == <<sim_vars, scenario_id, condition, now, start_time, paused, last_elapsed_time,
             update_result, event_returns, probe_returns, calls_made, requested, response>>

Pause ==
    /\ ~paused
    /\ paused' = TRUE
    /\ Commit(Self)
    /\ UNCHANGED <<sim_vars, scenario_id, condition, now, start_time, last_elapsed_time,
                   update_result, event_returns, probe_returns, calls_made,
                   requested, response>>

Resume ==
    /\ paused
    /\ paused' = FALSE
    /\ Commit(Self)
    /\ UNCHANGED <<sim_vars, scenario_id, condition, now, start_time, last_elapsed_time,
                   update_result, event_returns, probe_returns, calls_made,
                   requested, response>>

Bump(counts, returned) == [i \in 1..Len(counts) |-> counts[i] + (IF i \in returned THEN 1 ELSE 0)]

SeqRange(q) == {q[i] : i \in 1..Len(q)}

\* the events and the probes an update result hands to the caller
ReturnedEvents(result) ==
    IF result.status = "ok" THEN SeqRange(result.triggered_events) ELSE {}

ReturnedProbes(result) == IF result.status = "ok" THEN result.triggered_probes ELSE {}

\* update()
Update ==
    IF IsNone(start_time) \/ paused
    THEN /\ update_result' = [status |-> IF paused THEN "paused" ELSE "not_started"]
         /\ Commit(Self)
         /\ UNCHANGED <<sim_vars, scenario_id, condition, now, start_time, paused, last_elapsed_time,
                        event_returns, probe_returns, calls_made, requested, response>>
    ELSE LET r == update(Self, now - Val(start_time))
         IN  /\ Commit(r[1])
             /\ last_elapsed_time' = r[1].elapsed_time
             /\ update_result' = r[2]
             /\ event_returns' = Bump(event_returns, ReturnedEvents(r[2]))
             /\ probe_returns' = Bump(probe_returns, ReturnedProbes(r[2]))
             /\ UNCHANGED <<sim_vars, scenario_id, condition, now, start_time, paused, calls_made,
                            requested, response>>

\* the server starts a scenario as soon as it has constructed it
Started == ~IsNone(start_time)

\* what a caller passes to generate_alert: <<alert_type, target>> and data
AlertPairs ==
    {<<weather, system>>, <<comm_loss, AAL119>>, <<emergency, UAL238>>,
     <<ml_prediction, AAL119>>}

AlertDataOf(priority, is_prediction) ==
    [priority |-> priority, message |-> "m1", is_prediction |-> is_prediction]

AlertData(pair) ==
    CASE pair[1] = weather -> {AlertDataOf("medium", FALSE), AlertDataOf("high", FALSE)}
      [] pair[1] = comm_loss -> {AlertDataOf("medium", FALSE), AlertDataOf("medium", TRUE)}
      [] pair[1] = emergency ->
            {AlertDataOf("low", FALSE), AlertDataOf("critical", FALSE)}
      [] OTHER -> {AlertDataOf("medium", TRUE)}

GenerateUpTo(max) ==
    /\ Started
    /\ calls_made.generate < max
    /\ \E pair \in AlertPairs : \E data \in AlertData(pair) :
          LET r == generate_alert(Self, pair[1], pair[2], data)
          IN  Commit(r[1])
    /\ calls_made' = [calls_made EXCEPT !.generate = @ + 1]
    /\ UNCHANGED <<sim_vars, scenario_id, condition, now, start_time, paused, last_elapsed_time,
                   update_result, event_returns, probe_returns, requested, response>>

GenerateAlert == GenerateUpTo(MaxGenerateCalls)

GenerateToCap == GenerateUpTo(MaxCapCalls)

\* ids a caller can know: of the alerts generated so far, and one never issued
KnownAlertIds ==
    {alert_history[i].alert.alert_id : i \in 1..Len(alert_history)}
        \cup {AlertId(weather, UAL238, 0)}

AcknowledgeAlert ==
    /\ Started
    /\ \E alert_id \in KnownAlertIds : Commit(acknowledge_alert(Self, alert_id)[1])
    /\ UNCHANGED Outside

ResolveAlert ==
    /\ Started
    /\ \E alert_id \in KnownAlertIds : Commit(resolve_alert(Self, alert_id)[1])
    /\ UNCHANGED Outside

ResolvePrediction ==
    /\ Started
    /\ \E pair \in AlertPairs :
          LET r == resolve_prediction(Self, PredictionId(pair[2], pair[1]))
          IN  Commit(r[1])
    /\ UNCHANGED Outside

\* what a caller passes to the measurement tracker
test_event == <<"test", "_", "event">>
MeasurementTypes == {comm_loss, test_event}
MeasurementTargets == {AAL119, AAL11}
RegisteredTypes == {test_event}
InteractionTypes == {"click", "command", "user_command"}

RegisterMeasurement ==
    /\ Started
    /\ calls_made.measurement < MaxMeasurementCalls
    /\ \E event_type \in RegisteredTypes, target \in MeasurementTargets :
          Commit(register_measurement(Self, event_type, target))
    /\ calls_made' = [calls_made EXCEPT !.measurement = @ + 1]
    /\ UNCHANGED <<sim_vars, scenario_id, condition, now, start_time, paused, last_elapsed_time,
                   update_result, event_returns, probe_returns, requested, response>>

ResolveMeasurement ==
    /\ Started
    /\ \E target \in MeasurementTargets, event_type \in MeasurementTypes,
          resolution_type \in {"detected", "resolved"} :
          LET r == resolve_measurement(Self, target, event_type, resolution_type)
          IN  Commit(r[1])
    /\ UNCHANGED Outside

RecordInteraction ==
    /\ Started
    /\ \E interaction_type \in InteractionTypes, target \in MeasurementTargets :
          Commit(record_interaction(Self, interaction_type, target))
    /\ UNCHANGED Outside

\* ------------------------------------------------------------------ the server
\* get_scenario_info()['duration_seconds']: 360 s for ScenarioL1; the short
\* scripts last until one tick before the end of the clock
duration_seconds(id) == IF id = "L1" THEN Seconds(360) ELSE MaxNow - 1

\* ScenarioUpdateResponse as update_scenario builds it from the scenario and
\* from what update() returned, with the defaults of update_result.get; an
\* exception of update() is answered with HTTP 500
ScenarioUpdateResponse(s, result) ==
    IF result.status = "raised" THEN [code |-> 500]
    ELSE
    [code |-> 200,
     elapsed_time |-> s.elapsed_time,
     current_phase |-> IF result.status = "ok" THEN result.current_phase ELSE 0,
     triggered_events |-> IF result.status = "ok" THEN result.triggered_events ELSE <<>>,
     triggered_probes |-> IF result.status = "ok" THEN result.triggered_probes ELSE {},
     scenario_complete |-> s.elapsed_time >= duration_seconds(s.scenario_id)]

\* request.elapsed_time, as the client sends it
RequestTimes == 0..MaxNow

\* POST /api/sessions/{id}/update with request.elapsed_time = t: a session
\* with no active scenario gets one constructed and started, then
\* scenario.update() runs and the response is built
UpdateScenario ==
    \E t \in RequestTimes :
        LET fresh == IsNone(start_time)
            started_at == IF fresh THEN now ELSE Val(start_time)
            s0 == IF fresh
                  THEN [Self EXCEPT !.aircraft = Script(scenario_id).aircraft,
                                    !.events = Script(scenario_id).events,
                                    !.sagat_probes = Script(scenario_id).probes]
                  ELSE Self
            r == IF paused THEN <<s0, [status |-> "paused"]>>
                 ELSE update(s0, now - started_at)
        IN  /\ requested' = Some(t)
            /\ start_time' = Some(started_at)
            /\ Commit(r[1])
            /\ last_elapsed_time' = IF paused THEN last_elapsed_time ELSE r[1].elapsed_time
            /\ update_result' = r[2]
            /\ response' = ScenarioUpdateResponse(r[1], r[2])
            /\ event_returns' =
                   Bump([i \in 1..Len(s0.events) |-> IF fresh THEN 0 ELSE event_returns[i]],
                        ReturnedEvents(r[2]))
            /\ probe_returns' =
                   Bump([i \in 1..Len(s0.sagat_probes) |-> IF fresh THEN 0 ELSE probe_returns[i]],
                        ReturnedProbes(r[2]))
            /\ UNCHANGED <<sim_vars, scenario_id, condition, now, paused, calls_made>>

\* datetime.now() is the local wall clock, which can be set back between two
\* readings; it is kept at or after the reading taken by start()
ClockBack ==
    /\ ~IsNone(start_time)
    /\ now > Val(start_time)
    /\ now' = now - 1
    /\ UNCHANGED NonClock

\* ------------------------------------------------------------------ specifications
\* the scheduler: the clock, start, pause, resume and update
Next == Start \/ Tick \/ Pause \/ Resume \/ Update

Spec == Init /\ [][Next]_vars

\* the alert lifecycle manager driven through its calls, updates in between
NextAlerts ==
    \/ Start
    \/ TickAlerts
    \/ Update
    \/ GenerateAlert
    \/ AcknowledgeAlert
    \/ ResolveAlert
    \/ ResolvePrediction

SpecAlerts == InitAlerts /\ [][NextAlerts]_vars

\* the alert lifecycle manager under generate, acknowledge and resolve calls
\* alone, enough of them to pass the ceiling on simultaneous alerts
NextCap == Start \/ GenerateToCap \/ AcknowledgeAlert \/ ResolveAlert

SpecCap == InitAlerts /\ [][NextCap]_vars

\* the measurement tracker driven through its calls, updates in between
NextMeasurements ==
    \/ Start
    \/ TickMeasurements
    \/ Update
    \/ RegisterMeasurement
    \/ ResolveMeasurement
    \/ RecordInteraction

SpecMeasurements == InitMeasurements /\ [][NextMeasurements]_vars

\* scenario L1 polled at L1Polls, the participant issuing commands
NextL1 == Start \/ TickL1 \/ Update \/ RecordInteraction

SpecL1 == InitL1 /\ [][NextL1]_vars

\* the server polled by a client that sends its own elapsed time, the wall
\* clock moving in both directions
NextServer == Tick \/ ClockBack \/ UpdateScenario

SpecServer == Init /\ [][NextServer]_vars

\* the server polled while the wall clock moves forward, past the duration of
\* the scenario
NextTerminal == Tick \/ UpdateScenario

SpecTerminal == Init /\ [][NextTerminal]_vars

\* the scheduler running a script one of whose handlers raises
NextFaults == Start \/ Tick \/ Update \/ RecordInteraction

SpecFaults == InitFaults /\ [][NextFaults]_vars

\* the scheduler running a script with events for an aircraft that is not there
NextMissing == Start \/ Tick \/ Update

SpecMissing == InitMissing /\ [][NextMissing]_vars

\* ------------------------------------------------------------------ the scheduler
\* a step in which update() ran to its end
UpdateRan ==
    /\ update_result'.status = "ok"
    /\ (update_result' # update_result \/ elapsed_time' # elapsed_time)

\* item i of a script after a step: returned once if triggered and never
\* otherwise, triggered for good, and after an update triggered exactly when due
TriggeredOnce(items, items_after, returns_after, i) ==
    /\ returns_after[i] = (IF items_after[i].triggered THEN 1 ELSE 0)
    /\ (i \in DOMAIN items /\ items[i].triggered) => items_after[i].triggered
    /\ UpdateRan => (items_after[i].triggered <=> elapsed_time' >= items_after[i].time_offset)

\* C1: with the clock never going back, every scripted event and every SAGAT
\* probe is returned by exactly one update, the first whose elapsed time has
\* reached its time_offset, and its triggered flag never goes back to false
C1_TriggeredExactlyOnce ==
    [][/\ \A i \in DOMAIN events' : TriggeredOnce(events, events', event_returns', i)
       /\ \A i \in DOMAIN sagat_probes' :
              TriggeredOnce(sagat_probes, sagat_probes', probe_returns', i)]_vars

\* every event and probe of the script has been returned, after several updates
C1_Witness ==
    /\ Started
    /\ \A i \in DOMAIN events : events[i].triggered /\ event_returns[i] = 1
    /\ \A i \in DOMAIN sagat_probes : sagat_probes[i].triggered /\ probe_returns[i] = 1
    /\ Len(events) = Len(ShortEvents)
    /\ "triggered_events" \in DOMAIN update_result
    /\ Len(update_result.triggered_events) = 1

\* ------------------------------------------------------------------ the alert lifecycle
\* the active alerts of one (type, target) pair
ActiveFor(alerts, alert_type, target) ==
    {i \in DOMAIN alerts : alerts[i].type = alert_type /\ alerts[i].target = target}

\* the calls of generate_alert a caller may make in the current state
GenerateCalls == {<<pair, data>> : pair \in AlertPairs, data \in UNION {AlertData(q) : q \in AlertPairs}}

\* what generate_alert(call) would return and leave behind in the current state
Generated(call) == generate_alert(Self, call[1][1], call[1][2], call[2])

\* the call left one more suppression record, of this reason, and nothing else
SuppressedFor(call, reason) ==
    LET r == Generated(call)
    IN  /\ r[2] = None
        /\ r[1].active_alerts = active_alerts
        /\ r[1].alert_history = alert_history
        /\ Len(r[1].suppressed_alerts) = Len(suppressed_alerts) + 1
        /\ SubSeq(r[1].suppressed_alerts, 1, Len(suppressed_alerts)) = suppressed_alerts
        /\ LET rec == r[1].suppressed_alerts[Len(r[1].suppressed_alerts)]
           IN  /\ rec.reason = reason
               /\ rec.type = call[1][1]
               /\ rec.target = call[1][2]

\* C2 as stated: the active alerts whose priority is not critical never
\* outnumber max_simultaneous_alerts
C2_NonCriticalWithinCeiling ==
    Cardinality({i \in DOMAIN active_alerts : active_alerts[i].priority # "critical"})
        <= max_simultaneous_alerts

\* C2: after any sequence of generate, acknowledge and resolve calls, the
\* active alerts whose priority is neither high nor critical never outnumber
\* max_simultaneous_alerts
C2_LowerPrioritiesWithinCeiling ==
    Cardinality({i \in DOMAIN active_alerts :
                    active_alerts[i].priority \notin {"high", "critical"}})
        <= max_simultaneous_alerts

\* the ceiling is reached and a further alert has been turned away for it
C2_Witness ==
    /\ Cardinality({i \in DOMAIN active_alerts :
                       active_alerts[i].priority \notin {"high", "critical"}})
          = max_simultaneous_alerts
    /\ \E k \in DOMAIN suppressed_alerts : suppressed_alerts[k].reason = "max_alerts_reached"

\* C3: at most one active alert exists for any (type, target) pair, and a
\* generate call for a pair that has an active alert adds no active alert
C3_OneActivePerPair ==
    /\ \A i, j \in DOMAIN active_alerts :
           (active_alerts[i].type = active_alerts[j].type
               /\ active_alerts[i].target = active_alerts[j].target) => i = j
    /\ \A call \in GenerateCalls :
           ActiveFor(active_alerts, call[1][1], call[1][2]) # {}
               => Len(Generated(call)[1].active_alerts) = Len(active_alerts)

\* a pair's alert was generated in one second and generated again in a later one
C3_Witness ==
    \E i \in DOMAIN active_alerts :
        /\ active_alerts[i].update_count >= 1
        /\ ~IsNone(active_alerts[i].updated_at)
        /\ Val(active_alerts[i].updated_at) > active_alerts[i].generated_at

\* the second generate call for a pair whose alert, still active, no call has
\* updated: one active alert for the pair, returned, with update_count 1
SecondCallUpdates(call) ==
    LET r == Generated(call)
        mine == ActiveFor(r[1].active_alerts, call[1][1], call[1][2])
    IN  /\ Cardinality(mine) = 1
        /\ r[2] # None
        /\ \A i \in mine : r[2] = Some(r[1].active_alerts[i])
        /\ Val(r[2]).update_count = 1

AwaitsSecondCall(call) ==
    \E i \in ActiveFor(active_alerts, call[1][1], call[1][2]) :
        active_alerts[i].update_count = 0

\* the call is for an event a resolved ML prediction covers, in condition 3,
\* and is not itself a prediction alert
CoveredByResolvedPrediction(call) ==
    /\ condition = 3
    /\ call[1][1] # ml_prediction
    /\ ~call[2].is_prediction
    /\ PredictionId(call[1][2], call[1][1]) \in resolved_predictions

\* C4 as stated: a second generate for a pair whose first alert is unresolved
\* leaves one active alert for the pair, returns it, and its update_count is 1
C4_SecondCallAlwaysUpdates ==
    \A call \in GenerateCalls : AwaitsSecondCall(call) => SecondCallUpdates(call)

\* C4: a second generate for a pair whose first alert is unresolved, unless a
\* resolved ML prediction covers the call, leaves one active alert for the
\* pair, returns it, and its update_count is 1
C4_SecondCallUpdatesUnlessCovered ==
    \A call \in GenerateCalls :
        (AwaitsSecondCall(call) /\ ~CoveredByResolvedPrediction(call))
            => SecondCallUpdates(call)

\* in condition 3 a pair's alert has had its second call, and a prediction
\* has been resolved
C4_Witness ==
    /\ condition = 3
    /\ resolved_predictions # {}
    /\ \E i \in DOMAIN active_alerts : active_alerts[i].update_count = 1

\* some active alert is blocking and not acknowledged
ModalUp ==
    \E i \in DOMAIN active_alerts :
        active_alerts[i].blocking /\ IsNone(active_alerts[i].acknowledged_at)

LowerPriority(call) == call[2].priority \notin {"high", "critical"}

\* C5 as stated: while a blocking alert is unacknowledged, a generate call of
\* a priority neither high nor critical returns None, creates and modifies no
\* alert and appends one suppression record of reason blocking_modal_active
C5_ModalSuppressesEveryCall ==
    \A call \in GenerateCalls :
        (ModalUp /\ LowerPriority(call)) => SuppressedFor(call, "blocking_modal_active")

\* C5: while a blocking alert is unacknowledged, a generate call of a
\* priority neither high nor critical, for a pair that has no active alert,
\* returns None, creates and modifies no alert and appends one suppression
\* record of reason blocking_modal_active
C5_ModalSuppressesNewPairs ==
    \A call \in GenerateCalls :
        (ModalUp /\ LowerPriority(call)
            /\ ActiveFor(active_alerts, call[1][1], call[1][2]) = {})
            => SuppressedFor(call, "blocking_modal_active")

\* a call has been turned away while a blocking alert was unacknowledged
C5_Witness ==
    /\ ModalUp
    /\ \E k \in DOMAIN suppressed_alerts :
           suppressed_alerts[k].reason = "blocking_modal_active"

\* the call is itself a prediction alert
PredictionCall(call) == call[1][1] = ml_prediction \/ call[2].is_prediction

\* C6: in condition 3, once a prediction is resolved it stays resolved and
\* every generate call for its (event_type, target) that is not itself a
\* prediction alert returns None, leaves the active alerts as they are and
\* appends a suppression record of reason ml_prediction_resolved; no
\* prediction alert is suppressed for this reason, and no alert at all in
\* conditions 1 and 2
C6_ResolvedPredictionSuppresses ==
    /\ [](/\ \A call \in GenerateCalls :
               /\ CoveredByResolvedPrediction(call)
                      => SuppressedFor(call, "ml_prediction_resolved")
               /\ (PredictionCall(call) \/ condition # 3) =>
                      \/ Generated(call)[2] # None
                      \/ Generated(call)[1].suppressed_alerts[
                             Len(Generated(call)[1].suppressed_alerts)].reason
                                # "ml_prediction_resolved"
          /\ \A k \in DOMAIN suppressed_alerts :
               suppressed_alerts[k].reason = "ml_prediction_resolved"
                   => /\ condition = 3
                      /\ suppressed_alerts[k].type # ml_prediction)
    /\ [][resolved_predictions \subseteq resolved_predictions']_vars

\* in condition 3 a call covered by a resolved prediction has been turned away
C6_Witness ==
    /\ condition = 3
    /\ resolved_predictions # {}
    /\ \E k \in DOMAIN suppressed_alerts :
           /\ suppressed_alerts[k].reason = "ml_prediction_resolved"
           /\ PredictionId(suppressed_alerts[k].target, suppressed_alerts[k].type)
                  \in resolved_predictions

\* ------------------------------------------------------------------ the measurement tracker
\* the time a measurement was registered at, under whichever name it is kept
RegisteredAt(m) == IF "event_time" \in DOMAIN m THEN m.event_time ELSE m.loss_time

\* a delay is set exactly when its timestamp is, and is then the timestamp
\* less the time of registration
DelayFollows(m, time_field, delay_field) ==
    /\ IsNone(m[delay_field]) <=> IsNone(m[time_field])
    /\ ~IsNone(m[time_field]) => m[delay_field] = Some(Val(m[time_field]) - RegisteredAt(m))

\* C7: for every measurement detection_delay is set exactly when
\* detected_time is, and is then detected_time - event_time; likewise
\* resolution_delay and resolved_time, whichever operation set the timestamp
C7_DelaysFollowTimestamps ==
    \A i \in DOMAIN measurements :
        /\ DelayFollows(measurements[i].m, "detected_time", "detection_delay")
        /\ DelayFollows(measurements[i].m, "resolved_time", "resolution_delay")

\* a step of register_measurement
RegisterStep == calls_made'.measurement = calls_made.measurement + 1

\* the measurement as register_measurement leaves it at elapsed time t
Fresh(m, t) ==
    /\ RegisteredAt(m) = t
    /\ IsNone(m.detected_time) /\ IsNone(m.detection_delay)
    /\ IsNone(m.resolved_time) /\ IsNone(m.resolution_delay)

\* a timestamp that is set keeps its value and its delay theirs
Kept(m, m_after, time_field, delay_field) ==
    ~IsNone(m[time_field]) =>
        /\ m_after[time_field] = m[time_field]
        /\ m_after[delay_field] = m[delay_field]

\* what a caller passes to resolve_measurement
ResolveCalls ==
    {<<target, event_type, kind>> :
        target \in MeasurementTargets, event_type \in MeasurementTypes,
        kind \in {"detected", "resolved"}}

\* the timestamp of that kind is set on the measurement the call works on
AlreadyStamped(c) ==
    LET i == ResolveLookup(measurements, c[1], c[2])
    IN  /\ i # 0
        /\ ~IsNone(measurements[i].m[IF c[3] = "detected" THEN "detected_time"
                                     ELSE "resolved_time"])

\* C8: once detected_time (resolved_time) of a measurement is set, no resolve
\* call and no recorded interaction changes it or its delay, and a further
\* resolve of that kind returns False and changes nothing; only registering
\* the measurement again resets it, to no timestamps, no delays and the
\* elapsed time of that call as event_time
C8_FirstWriteWins ==
    /\ [](\A c \in ResolveCalls :
             AlreadyStamped(c) =>
                 resolve_measurement(Self, c[1], c[2], c[3]) = <<Self, "False">>)
    /\ [][\A i \in DOMAIN measurements :
             /\ i \in DOMAIN measurements'
             /\ measurements'[i].key = measurements[i].key
             /\ \/ /\ Kept(measurements[i].m, measurements'[i].m,
                            "detected_time", "detection_delay")
                   /\ Kept(measurements[i].m, measurements'[i].m,
                            "resolved_time", "resolution_delay")
                \/ /\ RegisterStep
                   /\ Fresh(measurements'[i].m, elapsed_time')]_vars

\* a measurement detected by one call and resolved by a later one
C8_Witness ==
    \E i \in DOMAIN measurements :
        /\ ~IsNone(measurements[i].m.detected_time)
        /\ ~IsNone(measurements[i].m.resolved_time)
        /\ Val(measurements[i].m.resolved_time) > Val(measurements[i].m.detected_time)
        /\ elapsed_time > Val(measurements[i].m.resolved_time)

\* C9: for every measurement detected_time >= event_time when it is set,
\* and resolved_time >= detected_time when both are set
C9_TimestampsOrdered ==
    \A i \in DOMAIN measurements :
        LET m == measurements[i].m
        IN  /\ ~IsNone(m.detected_time) => Val(m.detected_time) >= RegisteredAt(m)
            /\ (~IsNone(m.detected_time) /\ ~IsNone(m.resolved_time))
                   => Val(m.resolved_time) >= Val(m.detected_time)

\* ------------------------------------------------------------------ scenario L1
\* the comm loss of AAL119 scripted at 156 s, the fourth event of the script
CommLossEvent == 4

\* the measurements kept under the key of that comm loss
CommLossMeasurements ==
    {measurements[i].m : i \in {j \in DOMAIN measurements :
        measurements[j].key = MeasurementKey(AAL119, comm_loss)}}

\* update() has just returned the comm loss
CommLossReturned ==
    /\ update_result.status = "ok"
    /\ CommLossEvent \in SeqRange(update_result.triggered_events)

CommandResolves(m, since) ==
    \A m_after \in {record_interaction(Self, "command", AAL119).measurements[i].m :
                        i \in {j \in DOMAIN measurements : measurements[j].m = m}} :
        /\ m_after.resolved_time = Some(elapsed_time)
        /\ m_after.resolution_delay = Some(elapsed_time - since)

PhasesHolding(table, t) ==
    {i - 1 : i \in {j \in DOMAIN table : table[j].start <= t /\ t < table[j].end}}

\* C11: after every update of scenario L1 the current phase is the index of
\* the phase of the phase table whose [start, end) range contains
\* elapsed_time, and while the elapsed times do not decrease the current
\* phase does not decrease
C11_PhaseFollowsTable ==
    /\ [](\A p \in PhasesHolding(L1Phases, elapsed_time) : current_phase = p)
    /\ [][elapsed_time' >= elapsed_time => current_phase' >= current_phase]_vars

\* an update at the very start of the third phase has moved the scenario there
C11_Witness ==
    /\ update_result.status = "ok"
    /\ elapsed_time = L1Phases[3].start
    /\ PhasesHolding(L1Phases, elapsed_time) = {2}
    /\ current_phase = 2


\* ------------------------------------------------------------------ the update request
\* a step in which the server answered an update request
Answered == requested' # requested \/ response' # response

\* C12: an advance whose new elapsed time is smaller than the previous elapsed
\* time is rejected with an error, and changes no scenario state: no event or
\* probe fires, elapsed_time and the current phase stay
C12_BackwardAdvanceRejected ==
    [][(Answered /\ (Val(requested') < elapsed_time \/ elapsed_time' < elapsed_time))
          => /\ response'.code # 200
             /\ UNCHANGED <<elapsed_time, current_phase, events, sagat_probes>>]_vars

\* C13: after advance(t) the elapsed time of the scenario is t
C13_ElapsedTimeIsRequested ==
    [][Answered => elapsed_time' = Val(requested')]_vars


\* C14: once an update has reported scenario_complete, every later update
\* reports scenario_complete again, answers without error and triggers no
\* event and no probe, whatever the script
C14_TerminalFiresNothing ==
    [][(Answered /\ response.code = 200 /\ response.scenario_complete)
          => /\ response'.code = 200
             /\ response'.scenario_complete
             /\ response'.triggered_events = <<>>
             /\ response'.triggered_probes = {}]_vars


\* ------------------------------------------------------------------ faults of handlers
\* a step in which update() was called on the running scenario
UpdateCalled ==
    /\ update_result' # update_result \/ elapsed_time' # elapsed_time
    /\ update_result'.status \notin {"paused", "not_started"}

\* C15: when the handler of a due event raises, the update still returns its
\* result, and every event and probe due by then has been triggered
C15_HandlerFaultContained ==
    [][UpdateCalled =>
          /\ update_result'.status = "ok"
          /\ \A i \in DOMAIN events' :
                 elapsed_time' >= events'[i].time_offset => events'[i].triggered
          /\ \A i \in DOMAIN sagat_probes' :
                 elapsed_time' >= sagat_probes'[i].time_offset => sagat_probes'[i].triggered]_vars


\* ------------------------------------------------------------------ events without handler
\* the keys of self._event_handlers that the scripts use
event_handlers ==
    {emergency, comm_loss, phase_transition, weather, altitude_deviation, conflict,
     ml_prediction, faulty_event}

\* event i is due at the update of this step and its type has no handler
UnknownTypeDue(i) ==
    /\ UpdateCalled
    /\ events[i].event_type \notin event_handlers
    /\ ~events[i].triggered
    /\ elapsed_time' >= events[i].time_offset

\* the step leaves what an update leaves that finds event i triggered already
AsIfAlreadyTriggered(i) ==
    LET skipped == update([Self EXCEPT !.events[i].triggered = TRUE], elapsed_time')[1]
    IN  /\ events' = skipped.events
        /\ aircraft' = skipped.aircraft
        /\ measurements' = skipped.measurements
        /\ active_alerts' = skipped.active_alerts
        /\ alert_history' = skipped.alert_history
        /\ suppressed_alerts' = skipped.suppressed_alerts
        /\ pending_predictions' = skipped.pending_predictions

\* C16: an event whose type has no handler is marked triggered by the first
\* update that reaches its time_offset, with no other effect and without an
\* exception; the other events due at that update fire and are returned; and
\* no later update returns the event again
C16_UnknownTypeSkipped ==
    /\ [](\A i \in DOMAIN events :
             events[i].event_type \notin event_handlers => event_returns[i] <= 1)
    /\ [][\A i \in DOMAIN events :
             UnknownTypeDue(i) =>
                /\ update_result'.status = "ok"
                /\ events'[i].triggered
                /\ AsIfAlreadyTriggered(i)
                /\ \A j \in DOMAIN events :
                       (~events[j].triggered /\ elapsed_time' >= events[j].time_offset)
                           => /\ events'[j].triggered
                              /\ j \in ReturnedEvents(update_result')]_vars

\* the event without handler was triggered by the update that fired the comm
\* loss due with it, and a later update has fired the last event without it
C16_Witness ==
    /\ Len(events) = Len(ShortEvents)
    /\ \E i \in DOMAIN events :
          /\ events[i].event_type = custom_event
          /\ events[i].triggered
          /\ event_returns[i] = 1
          /\ \E j \in DOMAIN events :
                /\ j # i
                /\ events[j].time_offset = events[i].time_offset
                /\ events[j].event_type = comm_loss
                /\ measurements # <<>>
                /\ event_returns[j] = 1
    /\ update_result.status = "ok"
    /\ update_result.triggered_events = <<Len(events)>>


\* ------------------------------------------------------------------ events for a missing aircraft
\* an event of the kinds that act on the aircraft named by their target
ActsOnAircraft(event) ==
    \/ event.event_type \in {emergency, comm_loss, altitude_deviation}
    \/ /\ event.event_type = internal
       /\ event.data.action \in {"modify_altitude", "modify_heading", "modify_speed"}

\* event i is due at the update of this step and its aircraft is not there
MissingAircraftDue(i) ==
    /\ UpdateCalled
    /\ ActsOnAircraft(events[i])
    /\ events[i].target \notin DOMAIN aircraft
    /\ ~events[i].triggered
    /\ elapsed_time' >= events[i].time_offset

\* what the update of this step leaves when it finds event i triggered already
Skipping(i) == update([Self EXCEPT !.events[i].triggered = TRUE], elapsed_time')[1]

\* the measurements after the step are those of s and one registered for
\* event i at the elapsed time of the update
RegisteredOnTop(s, i) ==
    LET key == MeasurementKey(events[i].target, events[i].event_type)
    IN  /\ KeyIndex(measurements', key) # 0
        /\ measurements'[KeyIndex(measurements', key)].m.event_time = elapsed_time'
        /\ SeqRange(measurements') \ {measurements'[KeyIndex(measurements', key)]}
               = SeqRange(s.measurements)

\* C17 as stated: an event for an aircraft that is not in the aircraft set
\* raises nothing and changes only its triggered flag, neither the aircraft
\* nor the measurements
C17_MissingAircraftNoOp ==
    [][\A i \in DOMAIN events :
          MissingAircraftDue(i) =>
             /\ update_result'.status = "ok"
             /\ events' = Skipping(i).events
             /\ aircraft' = Skipping(i).aircraft
             /\ measurements' = Skipping(i).measurements]_vars

\* C17: an event for an aircraft that is not in the aircraft set raises nothing
\* and changes its triggered flag and no aircraft; it changes no measurement
\* either, except that an altitude_deviation registers its measurement
C17_MissingAircraftLeavesAircraft ==
    [][\A i \in DOMAIN events :
          MissingAircraftDue(i) =>
             /\ update_result'.status = "ok"
             /\ events' = Skipping(i).events
             /\ aircraft' = Skipping(i).aircraft
             /\ IF events[i].event_type = altitude_deviation
                THEN RegisteredOnTop(Skipping(i), i)
                ELSE measurements' = Skipping(i).measurements]_vars

\* every event of the script has fired: those for N123AB left the aircraft
\* alone (AAL11 has only flown on), the altitude deviation for N123AB has its
\* measurement
C17_Witness ==
    /\ Len(events) = Len(MissingEvents)
    /\ \A i \in DOMAIN events : events[i].triggered
    /\ N123AB \notin DOMAIN aircraft
    /\ [aircraft[AAL11] EXCEPT !.position = <<0, 0>>] = Aircraft(300)
    /\ aircraft[AAL119].speed = 300
    /\ KeyIndex(measurements, MeasurementKey(N123AB, altitude_deviation)) # 0
    /\ KeyIndex(measurements, MeasurementKey(N123AB, comm_loss)) = 0


\* ------------------------------------------------------------------ lookups that miss
\* C18: resolve_measurement for a target and event type for which no
\* measurement is registered returns False, raises nothing and leaves the
\* measurements as they are
C18_MissReturnsFalse ==
    \A c \in ResolveCalls :
        KeyIndex(measurements, MeasurementKey(c[1], c[2])) = 0
            => resolve_measurement(Self, c[1], c[2], c[3]) = <<Self, "False">>


\* ------------------------------------------------------------------ the classification of interactions
\* measurement i is live for the target: its key names the target and it has
\* neither timestamp
LiveFor(target, i) ==
    /\ Contains(target, measurements[i].key)
    /\ IsNone(measurements[i].m.detected_time)
    /\ IsNone(measurements[i].m.resolved_time)

\* C19: on a live measurement of its target, an interaction of a detection
\* type sets detected_time and leaves resolved_time unset, one of a resolution
\* type sets resolved_time, and one of any other type changes nothing
C19_ClassificationOnly ==
    \A interaction_type \in InteractionTypes, target \in MeasurementTargets :
        LET after == record_interaction(Self, interaction_type, target).measurements
        IN  \A i \in DOMAIN measurements :
                LiveFor(target, i) =>
                    CASE interaction_type \in detection_interactions ->
                            /\ ~IsNone(after[i].m.detected_time)
                            /\ IsNone(after[i].m.resolved_time)
                      [] interaction_type \in resolution_interactions ->
                            ~IsNone(after[i].m.resolved_time)
                      [] OTHER -> after[i] = measurements[i]


\* ------------------------------------------------------------------ acknowledging and resolving
\* acknowledge_alert and resolve_alert of that id on s return False and leave s
Refused(s, alert_id) ==
    /\ acknowledge_alert(s, alert_id) = <<s, "False">>
    /\ resolve_alert(s, alert_id) = <<s, "False">>

\* C20: resolve_alert of an active alert, acknowledged or not, returns True
\* and takes it out of the active set, after which acknowledge_alert and
\* resolve_alert of that id return False and change nothing; so they do for
\* every id that is not active, whether resolved before or never issued
C20_ResolveIsFinal ==
    /\ \A i \in DOMAIN active_alerts :
          LET alert_id == active_alerts[i].alert_id
              resolved == resolve_alert(Self, alert_id)
          IN  /\ resolved[2] = "True"
              /\ AlertIndex(resolved[1].active_alerts, alert_id) = 0
              /\ Len(resolved[1].active_alerts) = Len(active_alerts) - 1
              /\ Refused(resolved[1], alert_id)
    /\ \A alert_id \in KnownAlertIds :
          AlertIndex(active_alerts, alert_id) = 0 => Refused(Self, alert_id)

\* one alert was resolved and is gone from the active set, where another
\* alert stands unacknowledged
C20_Witness ==
    /\ \E h \in DOMAIN alert_history :
          /\ alert_history[h].status = "resolved"
          /\ ~IsNone(alert_history[h].alert.resolved_at)
          /\ AlertIndex(active_alerts, alert_history[h].alert.alert_id) = 0
    /\ \E i \in DOMAIN active_alerts : IsNone(active_alerts[i].acknowledged_at)
    /\ AlertIndex(active_alerts, AlertId(weather, UAL238, 0)) = 0

\* ------------------------------------------------------------------ the simulator's operations
scenario_vars ==
    <<scenario_id, condition, now, start_time, paused, elapsed_time, last_elapsed_time,
      aircraft, events, sagat_probes, measurements, active_alerts, alert_history,
      suppressed_alerts, resolved_predictions, pending_predictions, update_result,
      event_returns, probe_returns, calls_made, current_phase, requested, response>>

MaxLoopTime == 30
MaxTasks == 2
MaxStops == 2
MaxHandlers == 2
MaxSimTime == 400

Config(callsign, lat, lon, altitude) ==
    [callsign |-> callsign, lat |-> lat, lon |-> lon, altitude |-> altitude,
     heading |-> 90, speed |-> 360]

\* the traffic the loop is run with
LoopTraffic ==
    {<<Config("N1", 0, 0, 35000), Config("N2", 0, 25, 35000)>>}

\* asyncio.sleep(self.tick_rate / self.speed_multiplier), begun by task i
Sleep(tasks, i, e, time) ==
    [tasks EXCEPT ![i] = [@ EXCEPT !.state = "sleeping",
                                   !.wake_at = time + (e.tick_rate * 10) \div e.speed_multiplier,
                                   !.slept_with = e.speed_multiplier]]

LoadScenarioFrom(lists) ==
    /\ \E aircraft_config \in lists : engine' = load_scenario(engine, aircraft_config)
    /\ loop' = [loop EXCEPT !.last = [kind |-> "load_scenario"]]
    /\ UNCHANGED scenario_vars

LoadScenario == LoadScenarioFrom(LoopTraffic)

\* task.done(): the task has returned, was cancelled, or has raised
done(task) == task.state \in {"done", "failed"}

\* start(): a loop task is created unless the handle holds one that is not done
SimStart ==
    /\ Len(loop.tasks) < MaxTasks
    /\ IF ~IsNone(engine.task) /\ ~done(loop.tasks[Val(engine.task)])
       THEN /\ UNCHANGED engine
            /\ loop' = [loop EXCEPT !.started = TRUE, !.last = [kind |-> "start"]]
       ELSE /\ engine' = [engine EXCEPT !.task = Some(Len(loop.tasks) + 1)]
            /\ loop' = [loop EXCEPT
                   !.tasks = Append(@, [state |-> "new", cancelled |-> FALSE,
                                        last_time |-> 0, wake_at |-> 0, slept_with |-> 0,
                                        skipped |-> 0]),
                   !.started = TRUE,
                   !.last = [kind |-> "start"]]
    /\ UNCHANGED scenario_vars

\* a stop() waiting for a task that is done is resumed before any task
\* created after that task ended takes its first step
StopResumable == \E k \in 1..Len(loop.stops) : done(loop.tasks[loop.stops[k]])

\* run() up to its first sleep
TaskBegin ==
    \E i \in 1..Len(loop.tasks) :
        /\ loop.tasks[i].state = "new"
        /\ ~loop.tasks[i].cancelled
        /\ ~StopResumable
        /\ engine' = [engine EXCEPT !.running = TRUE]
        /\ loop' = [loop EXCEPT
               !.tasks = Sleep([@ EXCEPT ![i].last_time = loop.time], i, engine, loop.time),
               !.last = [kind |-> "begin", task |-> i]]
        /\ UNCHANGED scenario_vars

\* the CancelledError of cancel() reaches the task at its await and ends it
TaskCancelled ==
    \E i \in 1..Len(loop.tasks) :
        /\ ~done(loop.tasks[i])
        /\ loop.tasks[i].cancelled
        /\ loop' = [loop EXCEPT !.tasks[i].state = "done",
                                !.last = [kind |-> "cancelled", task |-> i]]
        /\ UNCHANGED <<engine, scenario_vars>>

\* one iteration of run(), from the end of the sleep to the next sleep or to
\* the end of the loop; the handlers at the positions in failing raise
TaskWake ==
    \E i \in 1..Len(loop.tasks) :
        /\ loop.tasks[i].state = "sleeping"
        /\ ~loop.tasks[i].cancelled
        /\ loop.time >= loop.tasks[i].wake_at
        /\ IF engine.paused
           THEN /\ UNCHANGED engine
                /\ loop' = [loop EXCEPT
                       !.tasks = IF engine.running
                                 THEN Sleep([@ EXCEPT ![i].last_time = loop.time,
                                                      ![i].skipped = @ + 1],
                                            i, engine, loop.time)
                                 ELSE [@ EXCEPT ![i].state = "done"],
                       !.last = [kind |-> "skipped", task |-> i]]
           ELSE \E failing \in SUBSET (1..Len(engine.event_handlers)) :
                LET current_time == loop.time
                    dt == (current_time - loop.tasks[i].last_time) * engine.speed_multiplier
                    sent == emit_event(tick(engine, dt), failing, 1)
                IN  /\ engine.sim_time + dt <= MaxSimTime
                    /\ engine' = tick(engine, dt)
                    /\ loop' = [loop EXCEPT
                           !.tasks = IF sent.escaped
                                     THEN [@ EXCEPT ![i].state = "failed"]
                                     ELSE IF ~engine.running
                                     THEN [@ EXCEPT ![i].state = "done"]
                                     ELSE Sleep([@ EXCEPT ![i].last_time = current_time],
                                                i, engine, loop.time),
                           !.raised = @ \cup {engine.event_handlers[k] : k \in failing},
                           !.last = [kind |-> "tick", task |-> i, dt |-> dt,
                                     slept |-> current_time - loop.tasks[i].last_time,
                                     slept_with |-> loop.tasks[i].slept_with,
                                     handlers |-> engine.event_handlers,
                                     failing |-> failing,
                                     invoked |-> sent.invoked, logged |-> sent.logged,
                                     escaped |-> sent.escaped]]
        /\ UNCHANGED scenario_vars

\* stop() up to its await: with no task, or with one that is done, it returns
\* at once; awaiting a task that has raised raises its exception again
SimStop ==
    /\ Len(loop.stops) < MaxStops
    /\ IF IsNone(engine.task)
       THEN /\ engine' = [engine EXCEPT !.running = FALSE]
            /\ loop' = [loop EXCEPT !.started = FALSE, !.last = [kind |-> "stopped"]]
       ELSE IF loop.tasks[Val(engine.task)].state = "failed"
       THEN /\ engine' = [engine EXCEPT !.running = FALSE]
            /\ loop' = [loop EXCEPT !.started = FALSE, !.last = [kind |-> "stop_raised"]]
       ELSE IF loop.tasks[Val(engine.task)].state = "done"
       THEN /\ engine' = [engine EXCEPT !.running = FALSE, !.task = None]
            /\ loop' = [loop EXCEPT !.started = FALSE, !.last = [kind |-> "stopped"]]
       ELSE /\ engine' = [engine EXCEPT !.running = FALSE]
            /\ loop' = [loop EXCEPT !.tasks[Val(engine.task)].cancelled = TRUE,
                                    !.stops = Append(@, Val(engine.task)),
                                    !.started = FALSE,
                                    !.last = [kind |-> "stopping"]]
    /\ UNCHANGED scenario_vars

\* stop() from its await on: the task it waited for has ended
StopReturn ==
    \E k \in 1..Len(loop.stops) :
        /\ done(loop.tasks[loop.stops[k]])
        /\ engine' = IF loop.tasks[loop.stops[k]].state = "failed" THEN engine
                     ELSE [engine EXCEPT !.task = None]
        /\ loop' = [loop EXCEPT
               !.stops = SubSeq(@, 1, k - 1) \o SubSeq(@, k + 1, Len(@)),
               !.last = [kind |-> IF loop.tasks[loop.stops[k]].state = "failed"
                                  THEN "stop_raised" ELSE "stopped"]]
        /\ UNCHANGED scenario_vars

SimPause ==
    /\ engine' = pause(engine)
    /\ loop' = [loop EXCEPT !.last = [kind |-> "pause"]]
    /\ UNCHANGED scenario_vars

SimResume ==
    /\ engine' = resume(engine)
    /\ loop' = [loop EXCEPT !.last = [kind |-> "resume"]]
    /\ UNCHANGED scenario_vars

\* the multipliers a client asks for: 0.0x, 1.0x, 2.0x and 20.0x
Multipliers == {0, 10, 20, 200}

SetSpeed ==
    /\ \E multiplier \in Multipliers : engine' = set_speed(engine, multiplier)
    /\ loop' = [loop EXCEPT !.last = [kind |-> "set_speed"]]
    /\ UNCHANGED scenario_vars

\* the handler the server registers at startup, and one of another client
Handlers == {"_sim_fan_out", "listener"}

AddEventHandler ==
    /\ Len(engine.event_handlers) < MaxHandlers
    /\ \E handler \in Handlers : engine' = add_event_handler(engine, handler)
    /\ loop' = [loop EXCEPT !.last = [kind |-> "add_event_handler"]]
    /\ UNCHANGED scenario_vars

RemoveEventHandler ==
    /\ \E handler \in Handlers : engine' = remove_event_handler(engine, handler)
    /\ loop' = [loop EXCEPT !.last = [kind |-> "remove_event_handler"]]
    /\ UNCHANGED scenario_vars

\* loop.time() advances
Elapse ==
    /\ \E d \in {1, 5} : loop.time + d <= MaxLoopTime
                         /\ loop' = [loop EXCEPT !.time = @ + d,
                                                 !.last = [kind |-> "elapse"]]
    /\ UNCHANGED <<engine, scenario_vars>>


\* the traffic conflict detection is run on: one aircraft at the reference
\* point and one east of it at, just inside and just outside each minimum
Longitudes == {0, 9, 10, 19, 20, 29, 30}
Altitudes == {35000, 35499, 35500, 35749, 35750, 35999, 36000}
Callsigns == {"N1", "N2", "N3"}

ConflictTraffic ==
    {<<Config(c1, 0, 0, 35000), Config(c2, 0, lon, altitude)>> :
        c1 \in {"N1", "N2"}, c2 \in {"N1", "N2"}, lon \in Longitudes, altitude \in Altitudes}

LoadConflictTraffic == LoadScenarioFrom(ConflictTraffic)

\* POST /api/aircraft/spawn
Spawned == {Config("N3", 0, 15, 35600), Config("N3", 6, 8, 34600),
            Config("N1", 0, 40, 35000)}

AddAircraft ==
    /\ \E config \in Spawned : engine' = add_aircraft(engine, config)
    /\ loop' = [loop EXCEPT !.last = [kind |-> "add_aircraft"]]
    /\ UNCHANGED scenario_vars

RemoveAircraft ==
    /\ \E callsign \in Callsigns : engine' = remove_aircraft(engine, callsign)
    /\ loop' = [loop EXCEPT !.last = [kind |-> "remove_aircraft"]]
    /\ UNCHANGED scenario_vars

MaxConflictSimTime == 100

\* tick(dt) for a dt of no time and of one second
TickNow ==
    /\ \E dt \in {0, 100} :
          /\ engine.sim_time + dt <= MaxConflictSimTime
          /\ engine' = tick(engine, dt)
    /\ loop' = [loop EXCEPT !.last = [kind |-> "tick_now"]]
    /\ UNCHANGED scenario_vars

NextConflicts == LoadConflictTraffic \/ AddAircraft \/ RemoveAircraft \/ TickNow

\* the simulator does not depend on the condition of a scenario
InitSimulator == Init /\ condition = 1

SpecConflicts == InitSimulator /\ [][NextConflicts]_vars

\* ------------------------------------------------------------------ C21
Fleet == SeqRange(engine.aircraft)

\* the unordered pairs of distinct aircraft that have lost separation
ConflictingPairs ==
    {{ab[1].callsign, ab[2].callsign} :
        ab \in {ab \in Fleet \X Fleet : ab[1] # ab[2] /\ ~IsNone(check_conflict(ab[1], ab[2]))}}

Reported(conflicts) ==
    {{conflicts[i].callsign1, conflicts[i].callsign2} : i \in 1..Len(conflicts)}

\* C21: check_conflict(a, b) and check_conflict(b, a) both report no conflict
\* or both report one with the same horizontal separation, vertical separation
\* and severity; and detect_all_conflicts reports each conflicting unordered
\* pair of the aircraft list exactly once, and no aircraft with itself,
\* whatever the order of the list
C21_DetectionSymmetric ==
    /\ \A a, b \in Fleet :
          LET ab == check_conflict(a, b)
              ba == check_conflict(b, a)
          IN  /\ IsNone(ab) <=> IsNone(ba)
              /\ ~IsNone(ab) =>
                    /\ Val(ab).horizontal_separation_nm = Val(ba).horizontal_separation_nm
                    /\ Val(ab).vertical_separation_ft = Val(ba).vertical_separation_ft
                    /\ Val(ab).severity = Val(ba).severity
    /\ \A p \in Permutations(1..Len(engine.aircraft)) :
          LET conflicts ==
                  detect_all_conflicts([i \in 1..Len(engine.aircraft) |-> engine.aircraft[p[i]]])
          IN  /\ Reported(conflicts) = ConflictingPairs
              /\ Len(conflicts) = Cardinality(ConflictingPairs)
              /\ \A i \in 1..Len(conflicts) : conflicts[i].callsign1 # conflicts[i].callsign2

\* three aircraft, two pairs of them in conflict and one not, ticked
C21_Witness ==
    /\ Len(engine.aircraft) = 3
    /\ Len(engine.conflicts) = 2
    /\ Cardinality(ConflictingPairs) = 2
    /\ loop.last.kind = "tick_now"


\* ------------------------------------------------------------------ C22
Horizontal(a, b) == calculate_distance_nm(a.lat, a.lon, b.lat, b.lon)

Vertical(a, b) == abs(a.altitude - b.altitude)

Rank(severity) ==
    CASE severity = "critical" -> 3 [] severity = "alert" -> 2 [] severity = "warning" -> 1

\* the pairs conflict detection is asked about
CheckedPairs == Fleet \X Fleet

\* C22: a pair is flagged exactly when its horizontal separation is below
\* 3 nm and its vertical separation below 1000 ft; the severity is critical
\* iff below 1 nm and 500 ft, otherwise alert iff below 2 nm and 750 ft,
\* otherwise warning; and of two conflicting pairs the one with no larger
\* separations has no lower severity
C22_SeverityBuckets ==
    /\ \A pair \in CheckedPairs :
          LET h == Horizontal(pair[1], pair[2])
              v == Vertical(pair[1], pair[2])
              found == check_conflict(pair[1], pair[2])
          IN  /\ ~IsNone(found) <=> (h < 30 /\ v < 1000)
              /\ ~IsNone(found) =>
                    Val(found).severity =
                        IF h < 10 /\ v < 500 THEN "critical"
                        ELSE IF h < 20 /\ v < 750 THEN "alert"
                        ELSE "warning"
    /\ \A closer, wider \in CheckedPairs :
          LET c == check_conflict(closer[1], closer[2])
              w == check_conflict(wider[1], wider[2])
          IN  /\ ~IsNone(w)
              /\ Horizontal(closer[1], closer[2]) <= Horizontal(wider[1], wider[2])
              /\ Vertical(closer[1], closer[2]) <= Vertical(wider[1], wider[2])
              => /\ ~IsNone(c)
                 /\ Rank(Val(c).severity) >= Rank(Val(w).severity)

\* a tick has reported an alert while two aircraft of the engine are exactly
\* 3 nm apart at less than 1000 ft
C22_Witness ==
    /\ loop.last.kind = "tick_now"
    /\ \E i \in 1..Len(engine.conflicts) : engine.conflicts[i].severity = "alert"
    /\ \E a, b \in Fleet : Horizontal(a, b) = 30 /\ Vertical(a, b) < 1000


\* ------------------------------------------------------------------ the simulator's loop
\* the loop, paused and resumed
NextPause ==
    \/ LoadScenario \/ AddEventHandler \/ SimStart \/ TaskBegin \/ TaskWake
    \/ SimPause \/ SimResume \/ Elapse

SpecPause == InitSimulator /\ [][NextPause]_vars

\* the loop, started and stopped
NextStop ==
    \/ SimStart \/ TaskBegin \/ TaskWake \/ TaskCancelled \/ SimStop \/ StopReturn \/ Elapse

SpecStop == InitSimulator /\ [][NextStop]_vars

\* the loop and its listeners
NextListeners ==
    \/ AddEventHandler \/ RemoveEventHandler \/ SimStart \/ TaskBegin \/ TaskWake \/ Elapse

SpecListeners == InitSimulator /\ [][NextListeners]_vars

\* the loop at changing speeds
NextSpeed == SimStart \/ TaskBegin \/ TaskWake \/ SetSpeed \/ Elapse

SpecSpeed == InitSimulator /\ [][NextSpeed]_vars


\* ------------------------------------------------------------------ C23
\* task i goes through an iteration of its loop: it leaves a sleep otherwise
\* than by being cancelled
Iteration(i) ==
    /\ i <= Len(loop.tasks)
    /\ loop.tasks[i].state = "sleeping"
    /\ loop'.tasks[i] # loop.tasks[i]
    /\ ~loop'.tasks[i].cancelled

PauseOrResume ==
    /\ loop'.last.kind \in {"pause", "resume"}
    /\ engine' # engine

\* C23: pause and resume change the paused flag and nothing else, in
\* particular not the loop task; an iteration that finds paused set leaves
\* sim_time, the aircraft and the conflicts as they are, broadcasts nothing
\* and goes back to sleep on the same task
C23_PauseSkipsTicks ==
    [][/\ PauseOrResume =>
             /\ [engine' EXCEPT !.paused = engine.paused] = engine
             /\ loop'.tasks = loop.tasks
       /\ \A i \in 1..MaxTasks :
             Iteration(i) /\ engine.paused =>
                 /\ engine' = engine
                 /\ loop'.last.kind # "tick"
                 /\ loop'.tasks[i].state = "sleeping"
                 /\ Len(loop'.tasks) = Len(loop.tasks)]_vars

\* after a pause and a resume the one task ever started has ticked and
\* broadcast again
C23_Witness ==
    /\ Len(loop.tasks) = 1
    /\ loop.tasks[1].skipped > 0
    /\ ~engine.paused
    /\ loop.last.kind = "tick"
    /\ loop.last.task = 1
    /\ loop.last.invoked # <<>>
    /\ engine.aircraft # <<>>


\* ------------------------------------------------------------------ C24
\* a loop task ticks
Ticking == \E i \in 1..MaxTasks : Iteration(i) /\ loop'.last.kind = "tick"

\* C24: stop() raises nothing and, whenever it returns, leaves running false
\* and no loop task in the handle, also when no loop was running or when it
\* has just been called; and no tick occurs after a stop() unless start() has
\* been called since
C24_StopIdempotent ==
    /\ [](loop.last.kind # "stop_raised")
    /\ [](loop.last.kind = "stopped" => ~engine.running /\ IsNone(engine.task))
    /\ [][Ticking => loop.started]_vars


\* ------------------------------------------------------------------ C25
\* C25: whichever listeners raise in a tick broadcast, no exception leaves
\* the broadcast, every subscribed listener is invoked, in order, and the
\* loop task goes back to sleep for its next tick
C25_ListenerFaultContained ==
    /\ \A i \in 1..Len(loop.tasks) : loop.tasks[i].state # "failed"
    /\ loop.last.kind = "tick" =>
          /\ ~loop.last.escaped
          /\ loop.last.invoked = [k \in 1..Len(loop.last.handlers) |-> k]
          /\ loop.last.logged = SelectSeq(loop.last.invoked, LAMBDA k : k \in loop.last.failing)
          /\ loop.tasks[loop.last.task].state = "sleeping"

\* a tick whose two listeners were both invoked without fault, after a tick
\* in which a listener had raised
C25_Witness ==
    /\ loop.last.kind = "tick"
    /\ loop.last.failing = {}
    /\ Len(loop.last.invoked) = 2
    /\ loop.raised # {}

\* ------------------------------------------------------------------ C26
\* C26: a listener that raises in a tick broadcast is no longer subscribed
\* after that tick, and a tick invokes no listener that has raised before
C26_FailingListenerRemoved ==
    [][Ticking =>
          /\ \A k \in loop'.last.failing :
                loop'.last.handlers[k] \notin SeqRange(engine'.event_handlers)
          /\ \A k \in 1..Len(loop'.last.invoked) :
                loop'.last.handlers[loop'.last.invoked[k]] \notin loop.raised]_vars


\* ------------------------------------------------------------------ C27
\* C27: the simulated time a tick credits for the sleep it ends is the length
\* of that sleep times the speed multiplier in force when the sleep began
C27_SpeedChangeNotRetroactive ==
    [][Ticking => loop'.last.dt = loop'.last.slept * loop'.last.slept_with]_vars


\* ------------------------------------------------------------------ re-emission
\* the clock readings at which the scenario is polled around the re-emission
\* interval
ReemitPolls == {Seconds(1), Seconds(15), Seconds(16), Seconds(30), Seconds(31)}

TickReemit ==
    /\ ~IsNone(start_time)
    /\ \E t \in ReemitPolls : t > now /\ now' = t
    /\ UNCHANGED NonClock

\* generate_alert for an alert that stays (weather) and for one that the next
\* update resolves (comm_loss of an aircraft whose comm_status is normal)
GenerateReemit ==
    /\ Started
    /\ calls_made.generate < MaxGenerateCalls
    /\ \E pair \in {<<weather, system>>, <<comm_loss, AAL119>>} :
          Commit(generate_alert(Self, pair[1], pair[2], AlertDataOf("high", FALSE))[1])
    /\ calls_made' = [calls_made EXCEPT !.generate = @ + 1]
    /\ UNCHANGED <<sim_vars, scenario_id, condition, now, start_time, paused,
                   last_elapsed_time, update_result, event_returns, probe_returns,
                   requested, response>>

NextReemit == Start \/ TickReemit \/ Update \/ GenerateReemit \/ AcknowledgeAlert

SpecReemit == InitAlerts /\ [][NextReemit]_vars

\* ------------------------------------------------------------------ C28
\* the time an alert was last emitted: generated, or re-emitted since
LastEmitted(alert) ==
    IF IsNone(alert.last_emitted_at) THEN alert.generated_at ELSE Val(alert.last_emitted_at)

\* the ids of the alerts an update result re-emits
Reemitted(result) ==
    {result.reemit_alerts[k].alert_id : k \in 1..Len(result.reemit_alerts)}

\* the active alerts that an update at time t has to re-emit
ToReemit(before, after, t) ==
    {before[i].alert_id : i \in
        {i \in 1..Len(before) :
            /\ \E j \in 1..Len(after) : after[j].alert_id = before[i].alert_id
            /\ IsNone(before[i].acknowledged_at)
            /\ t - LastEmitted(before[i]) >= Seconds(15)}}

\* C28: in condition 1 an update re-emits exactly the alerts that are still
\* active after it, unacknowledged, and last emitted (generated or
\* re-emitted) at least 15 s before; each is re-emitted once, its copy
\* carries suppress_audio, and the time of the emission is recorded on the
\* alert; in conditions 2 and 3 nothing is re-emitted
C28_ReemitEvery15s ==
    [][UpdateCalled /\ update_result'.status = "ok" =>
          LET result == update_result'
              t == elapsed_time'
          IN  /\ condition # 1 => result.reemit_alerts = <<>>
              /\ condition = 1 =>
                    /\ Reemitted(result) = ToReemit(active_alerts, active_alerts', t)
                    /\ Len(result.reemit_alerts) = Cardinality(Reemitted(result))
              /\ \A k \in 1..Len(result.reemit_alerts) :
                    /\ result.reemit_alerts[k].suppress_audio
                    /\ \E j \in 1..Len(active_alerts') :
                          /\ active_alerts'[j].alert_id = result.reemit_alerts[k].alert_id
                          /\ active_alerts'[j].last_emitted_at = Some(t)]_vars

\* an update has re-emitted an alert for the second time
C28_Witness ==
    /\ update_result.status = "ok"
    /\ \E k \in 1..Len(update_result.reemit_alerts) :
          /\ update_result.reemit_alerts[k].reemit_count = 2
          /\ update_result.reemit_alerts[k].suppress_audio


\* ------------------------------------------------------------------ auto-resolution
\* what a caller passes as action_id
ActionIds == {<<"clear", "_", "to", "_", "land">>, <<"Grant", "-", "PRIORITY">>,
              <<"handoff">>}

ResolveEmergencyByAction ==
    /\ Started
    /\ \E callsign \in {UAL238, N123AB}, action_id \in ActionIds :
          Commit(resolve_emergency_by_action(Self, callsign, action_id)[1])
    /\ UNCHANGED Outside

\* generate_alert for an emergency, a comm loss and a conflict
GenerateResolvable ==
    /\ Started
    /\ calls_made.generate < MaxGenerateCalls
    /\ \E pair \in {<<emergency, UAL238>>, <<comm_loss, AAL119>>, <<conflict, AAL11>>,
                    <<emergency, N123AB>>} :
          Commit(generate_alert(Self, pair[1], pair[2], AlertDataOf("critical", FALSE))[1])
    /\ calls_made' = [calls_made EXCEPT !.generate = @ + 1]
    /\ UNCHANGED <<sim_vars, scenario_id, condition, now, start_time, paused,
                   last_elapsed_time, update_result, event_returns, probe_returns,
                   requested, response>>

NextResolve == Start \/ Tick \/ Update \/ GenerateResolvable \/ ResolveEmergencyByAction

SpecResolve == InitAlerts /\ [][NextResolve]_vars

\* ------------------------------------------------------------------ C29
\* the alert is one that auto-resolution has to remove in state s
Resolvable(alert, fleet) ==
    /\ alert.target \in DOMAIN fleet
    /\ \/ alert.type = emergency /\ ~fleet[alert.target].emergency
       \/ alert.type = comm_loss /\ fleet[alert.target].comm_status = "normal"

\* C29: after an update that ran, no active emergency alert targets an
\* existing aircraft whose emergency flag is cleared and no active comm_loss
\* alert one whose comm_status is normal; the alerts the update removed are
\* exactly those it lists as resolved, each of them of one of these two
\* kinds, and no conflict alert among them
C29_AutoResolution ==
    [][UpdateCalled /\ update_result'.status = "ok" =>
          LET kept == {active_alerts'[j].alert_id : j \in 1..Len(active_alerts')}
              removed == {i \in 1..Len(active_alerts) : active_alerts[i].alert_id \notin kept}
          IN  /\ \A j \in 1..Len(active_alerts') : ~Resolvable(active_alerts'[j], aircraft')
              /\ {active_alerts[i].alert_id : i \in removed}
                     = SeqRange(update_result'.resolved_alerts)
              /\ \A i \in removed :
                    /\ active_alerts[i].type # conflict
                    /\ Resolvable(active_alerts[i], aircraft')]_vars

\* the update after resolve_emergency_by_action cleared the emergency the
\* script had declared for UAL238 has resolved the emergency alert, and left
\* a conflict alert active
C29_Witness ==
    /\ update_result.status = "ok"
    /\ Len(update_result.resolved_alerts) = 1
    /\ \E i \in 1..Len(events) : events[i].event_type = emergency /\ events[i].triggered
    /\ ~aircraft[UAL238].emergency
    /\ \E h \in 1..Len(alert_history) :
          /\ alert_history[h].alert.type = emergency
          /\ alert_history[h].alert.target = UAL238
          /\ alert_history[h].alert.alert_id = update_result.resolved_alerts[1]
    /\ \E j \in 1..Len(active_alerts) : active_alerts[j].type = conflict


\* ------------------------------------------------------------------ C30
ActiveIds(alerts) == {alerts[i].alert_id : i \in 1..Len(alerts)}

\* the alerts a step creates, updates in place and resolves
Created == ActiveIds(active_alerts') \ ActiveIds(active_alerts)

Updated ==
    {i \in 1..Len(active_alerts) :
        \E j \in 1..Len(active_alerts') :
            /\ active_alerts'[j].alert_id = active_alerts[i].alert_id
            /\ active_alerts'[j].update_count > active_alerts[i].update_count}

Resolved == ActiveIds(active_alerts) \ ActiveIds(active_alerts')

\* C30: every step leaves the records already in the alert history as they
\* are and in place, and appends one record for each alert it creates,
\* updates in place or resolves
C30_HistoryAppendOnly ==
    [][/\ Len(alert_history') =
              Len(alert_history) + Cardinality(Created) + Cardinality(Updated)
                  + Cardinality(Resolved)
       /\ SubSeq(alert_history', 1, Len(alert_history)) = alert_history]_vars


\* ------------------------------------------------------------------ deduplication
MaxDedupCalls == 3

\* what callers pass as data: with and without a message, with and without
\* a priority
DedupData ==
    {[priority |-> "low", message |-> "m1"], [priority |-> "critical", message |-> "m2"],
     [message |-> "m2"], [priority |-> "high"]}

DedupCalls == {<<pair, data>> : pair \in {<<weather, system>>}, data \in DedupData}

GenerateDedup ==
    /\ Started
    /\ calls_made.generate < MaxDedupCalls
    /\ \E call \in DedupCalls : Commit(Generated(call)[1])
    /\ calls_made' = [calls_made EXCEPT !.generate = @ + 1]
    /\ UNCHANGED <<sim_vars, scenario_id, condition, now, start_time, paused,
                   last_elapsed_time, update_result, event_returns, probe_returns,
                   requested, response>>

NextDedup == Start \/ TickAlerts \/ Update \/ GenerateDedup \/ AcknowledgeAlert \/ ResolveAlert

SpecDedup == InitAlerts /\ [][NextDedup]_vars

\* ------------------------------------------------------------------ C31
\* the call reaches the duplicate check and finds an active alert of its pair
Hits(call) ==
    /\ ~MlSuppressed(Self, call[1][1], call[1][2], call[2])
    /\ find_similar_alert(active_alerts, call[1][1], call[1][2]) # 0

\* the call changed the alert it hit in place and nothing else: the call's
\* message on it, one more update counted, the priority either kept or the
\* call's and strictly higher
UpdatedInPlace(call) ==
    LET i == find_similar_alert(active_alerts, call[1][1], call[1][2])
        r == Generated(call)
        old == active_alerts[i]
        new == r[1].active_alerts[i]
    IN  /\ Len(r[1].active_alerts) = Len(active_alerts)
        /\ \A j \in 1..Len(active_alerts) : j # i => r[1].active_alerts[j] = active_alerts[j]
        /\ r[2] = Some(new)
        /\ r[1].alert_history = alert_history
        /\ r[1].suppressed_alerts = suppressed_alerts
        /\ new.alert_id = old.alert_id
        /\ new.type = old.type /\ new.target = old.target
        /\ new.generated_at = old.generated_at
        /\ new.message = IF "message" \in DOMAIN call[2] THEN call[2].message ELSE old.message
        /\ new.update_count = old.update_count + 1
        /\ \/ new.priority = old.priority
           \/ /\ new.priority = PriorityOf(call[2])
              /\ priority_order(new.priority) > priority_order(old.priority)

\* no alert that is active before and after the step has a lower priority
\* after it
PriorityKept ==
    \A i \in 1..Len(active_alerts) : \A j \in 1..Len(active_alerts') :
        active_alerts'[j].alert_id = active_alerts[i].alert_id
            => priority_order(active_alerts'[j].priority)
                   >= priority_order(active_alerts[i].priority)

\* C31: a generate call that hits an active alert of its (type, target)
\* updates that alert in place (the call's message replaces the old one,
\* update_count grows by exactly 1, the priority changes only to a strictly
\* higher one), and no step lowers the priority of an alert that stays active
C31_DedupUpdatesInPlace ==
    /\ [](\A call \in DedupCalls : Hits(call) => UpdatedInPlace(call))
    /\ [][PriorityKept]_vars

\* an alert has been updated twice: one call raised it to critical, and the
\* last call, of priority low, replaced the message and left it critical
C31_Witness ==
    \E i \in 1..Len(active_alerts) :
        /\ active_alerts[i].update_count = 2
        /\ active_alerts[i].priority = "critical"
        /\ active_alerts[i].message = "m1"


\* ------------------------------------------------------------------ altitude commands
MaxAltitudeSimTime == 2400
MaxOffset == 30

\* one aircraft at 35000 ft, and the altitudes it is cleared to
AltitudeTraffic == {<<Config("N1", 0, 0, 35000)>>}
CommandedAltitudes == {34900, 35050, 35250}

\* the time steps: 3 s and 6 s
Steps == {300, 600}

LoadAltitudeTraffic == LoadScenarioFrom(AltitudeTraffic)

\* command_aircraft(callsign, altitude=...)
CommandAltitude ==
    /\ \E altitude \in CommandedAltitudes :
          engine' = command_aircraft(engine, "N1", Some(altitude), None, None)
    /\ loop' = [loop EXCEPT !.last = [kind |-> "command"]]
    /\ UNCHANGED scenario_vars

\* tick(dt)
TickAltitude ==
    /\ \E dt \in Steps :
          /\ engine.sim_time + dt <= MaxAltitudeSimTime
          /\ engine' = tick(engine, dt)
          /\ loop' = [loop EXCEPT !.last = [kind |-> "tick_now", dt |-> dt]]
    /\ UNCHANGED scenario_vars

\* physics.update_aircraft_position(aircraft, dt) on an aircraft of the engine
PhysicsStepOf(steps, outcomes, offset) ==
    /\ \E i \in 1..Len(engine.aircraft), dt \in steps, short \in outcomes :
          /\ abs(engine.aircraft[i].lon) < offset
          /\ abs(engine.aircraft[i].lat) < offset
          /\ engine' = [engine EXCEPT !.aircraft[i] =
                            physics_update_aircraft_position(@, dt, short)]
          /\ loop' = [loop EXCEPT !.last = [kind |-> "physics", dt |-> dt, index |-> i]]
    /\ UNCHANGED scenario_vars

PhysicsStep == PhysicsStepOf(Steps, BOOLEAN, MaxOffset)

NextAltitude == LoadAltitudeTraffic \/ CommandAltitude \/ TickAltitude \/ PhysicsStep

\* the loop keeps ticking
SpecAltitude == InitSimulator /\ [][NextAltitude]_vars /\ WF_vars(TickAltitude)

\* ------------------------------------------------------------------ C32
\* one aircraft through one kinematics step of dt at the given climb and
\* descent rates (feet a minute): without a target the altitude is held; with
\* one it moves toward it by at most rate * dt and never past it, lands on it
\* and clears it when the difference is within one step, and otherwise moves
\* and keeps the target
SteppedToward(before, after, dt, climb, descent) ==
    IF IsNone(before.target_altitude)
    THEN after.altitude = before.altitude /\ IsNone(after.target_altitude)
    ELSE LET target == Val(before.target_altitude)
             diff == target - before.altitude
             rate == IF diff > 0 THEN climb ELSE descent
         IN  /\ abs(after.altitude - before.altitude) * 6000 <= rate * dt
             /\ (target - after.altitude) * diff >= 0
             /\ abs(target - after.altitude) <= abs(diff)
             /\ IF abs(diff) * 6000 <= rate * dt
                THEN after.altitude = target /\ IsNone(after.target_altitude)
                ELSE /\ after.altitude # before.altitude
                     /\ after.target_altitude = before.target_altitude

\* the engine's tick moves every aircraft this way
EngineStepsToward ==
    loop'.last.kind = "tick_now" =>
        \A i \in 1..Len(engine.aircraft) :
            SteppedToward(engine.aircraft[i], engine'.aircraft[i], loop'.last.dt,
                          ALTITUDE_CHANGE_RATE_FPM, ALTITUDE_CHANGE_RATE_FPM)

\* and physics.update_aircraft_position the aircraft it is given
PhysicsStepsToward ==
    loop'.last.kind = "physics" =>
        SteppedToward(engine.aircraft[loop'.last.index], engine'.aircraft[loop'.last.index],
                      loop'.last.dt, STANDARD_CLIMB_RATE, STANDARD_DESCENT_RATE)

\* a target is cleared by the landing on it only
ClearedOnLanding ==
    \A i \in 1..Len(engine.aircraft) :
        (/\ loop'.last.kind \in {"tick_now", "physics"}
         /\ ~IsNone(engine.aircraft[i].target_altitude)
         /\ IsNone(engine'.aircraft[i].target_altitude))
            => engine'.aircraft[i].altitude = Val(engine.aircraft[i].target_altitude)

\* the aircraft is cleared to this altitude and has not reached it
Cleared(altitude) ==
    \E i \in 1..Len(engine.aircraft) : engine.aircraft[i].target_altitude = Some(altitude)

\* the time in which the ticks a commanded altitude needs can be made: the
\* farthest is 350 ft away, four ticks of 3 s at 2000 ft a minute
TimeToReach == 4 * 300

\* C32: in every kinematics step with dt > 0 an aircraft with a target
\* altitude moves toward it by at most the rate times dt and never past it,
\* lands exactly on it with the target cleared when the difference is within
\* one step, and holds its altitude without a target; under repeated ticks a
\* commanded altitude is reached (the target cleared by the landing on it)
\* unless a new command replaces it
C32_AltitudeNeverOvershoots ==
    /\ [][EngineStepsToward /\ PhysicsStepsToward /\ ClearedOnLanding]_vars
    /\ \A altitude \in CommandedAltitudes :
          (Cleared(altitude) /\ engine.sim_time <= MaxAltitudeSimTime - TimeToReach)
              ~> ~Cleared(altitude)


\* ------------------------------------------------------------------ headings
MaxHeadingSimTime == 600
MaxTurnOffset == 12

\* POST /api/aircraft/spawn: the heading is any number the request carries
SpawnHeadings == {0, 359, 360, 0 - 90}

SpawnHeading ==
    /\ \E heading \in SpawnHeadings :
          engine' = add_aircraft(engine, [Config("N3", 0, 0, 35000) EXCEPT !.heading = heading])
    /\ loop' = [loop EXCEPT !.last = [kind |-> "add_aircraft"]]
    /\ UNCHANGED scenario_vars

\* POST /api/aircraft/{callsign}/command with a heading
CommandHeading ==
    /\ \E heading \in {0 - 90, 180, 360, 725} :
          engine' = command_aircraft(engine, "N3", None, Some(heading), None)
    /\ loop' = [loop EXCEPT !.last = [kind |-> "command"]]
    /\ UNCHANGED scenario_vars

TickHeading ==
    /\ engine.sim_time + 300 <= MaxHeadingSimTime
    /\ engine' = tick(engine, 300)
    /\ loop' = [loop EXCEPT !.last = [kind |-> "tick_now", dt |-> 300]]
    /\ UNCHANGED scenario_vars

\* physics.update_aircraft_position turning an aircraft, 18 degrees a step
PhysicsTurn == PhysicsStepOf({600}, {FALSE}, MaxTurnOffset)

\* a scenario running next to the simulator
NextHeadings ==
    \/ Start \/ TickAlerts \/ Update
    \/ SpawnHeading \/ CommandHeading \/ TickHeading \/ PhysicsTurn

SpecHeadings == InitSimulator /\ [][NextHeadings]_vars

\* ------------------------------------------------------------------ C33
\* C33: the heading of every aircraft of the scenario and of every aircraft
\* of the simulator lies in [0, 360)
C33_HeadingsNormalized ==
    /\ \A c \in DOMAIN aircraft : aircraft[c].heading >= 0 /\ aircraft[c].heading < 360
    /\ \A i \in 1..Len(engine.aircraft) :
          engine.aircraft[i].heading >= 0 /\ engine.aircraft[i].heading < 360


\* ------------------------------------------------------------------ positions
MaxPositionNow == 14

\* the clock between two updates: a tick, 5 s, a tick more than 5 s
TickPositions == TickBy({1, Seconds(5), Seconds(5) + 1}, MaxPositionNow)

\* the clock set back, while no aircraft has been moved farther back than
\* MaxDrift
MaxDrift == 3000

ClockBackWithin ==
    /\ \A c \in DOMAIN aircraft : aircraft[c].position[1] >= 0 - MaxDrift
    /\ ClockBack

NextPositions == Start \/ TickPositions \/ ClockBackWithin \/ Pause \/ Resume \/ Update

\* a scenario whose script changes the speed of an aircraft
InitPositions == InitMissing /\ condition = 1

SpecPositions == InitPositions /\ [][NextPositions]_vars

\* ------------------------------------------------------------------ C34
\* the time the update applies to the positions: from the previous update
\* to this one, 5 s at most
AppliedDt == min(elapsed_time' - last_elapsed_time, MaxEffectiveDt)

\* the aircraft has moved along its heading by its speed times dt
MovedFor(before, after, dt) ==
    /\ after.position[1] = before.position[1] + after.speed * sin(after.heading) * dt
    /\ after.position[2] = before.position[2] + after.speed * cos(after.heading) * dt

\* the aircraft has moved by no more than its speed makes in 5 s
Displaced(before, after) ==
    /\ abs(after.position[1] - before.position[1]) <= after.speed * MaxEffectiveDt
    /\ abs(after.position[2] - before.position[2]) <= after.speed * MaxEffectiveDt

\* C34: an update moves every aircraft for min(dt, 5 s), dt being the time
\* since the previous update, and so displaces none by more than
\* speed * 5 / 3600 nm
C34_PositionDeltaClamped ==
    [][UpdateRan =>
          \A c \in DOMAIN aircraft :
              /\ MovedFor(aircraft[c], aircraft'[c], AppliedDt)
              /\ Displaced(aircraft[c], aircraft'[c])]_vars


\* ------------------------------------------------------------------ C35
\* the loop tasks that are running: created, not ended and not cancelled
RunningLoops ==
    {i \in 1..Len(loop.tasks) : ~done(loop.tasks[i]) /\ ~loop.tasks[i].cancelled}

\* C35: under every interleaving of start() and stop(), each atomic between
\* its await points, at most one loop is running, and a running loop is the
\* one the engine's task handle references
C35_OneLoopByHandle ==
    /\ Cardinality(RunningLoops) <= 1
    /\ \A i \in RunningLoops : engine.task = Some(i)


\* ------------------------------------------------------------------ C36
\* the elapsed time an update() would read off the clock now
ScenarioClock == IF IsNone(start_time) THEN 0 ELSE now - Val(start_time)

\* C36: while a started scenario is paused no step, update() included,
\* changes the state of the scenario, and the time that passes is not
\* counted: the elapsed time the next update reads, against which events and
\* probes fall due, is the same at the end of the pause as at its beginning
C36_PauseStopsClock ==
    /\ [][Started /\ paused /\ paused' => Self' = Self]_vars
    /\ [][paused => ScenarioClock' = ScenarioClock]_vars


\* ------------------------------------------------------------------ C37
\* C37: no two records of the alert history have the same alert_id (so the
\* id of an alert, resolved or not, is never given to a later one), and no
\* two calls for distinct (type, target) pairs make the same alert_id
C37_AlertIdsUnique ==
    /\ \A i, j \in 1..Len(alert_history) :
          i # j => alert_history[i].alert.alert_id # alert_history[j].alert.alert_id
    /\ \A p, q \in AlertPairs : \A t1, t2 \in 0..MaxAlertNow :
          p # q => AlertId(p[1], p[2], t1) # AlertId(q[1], q[2], t2)


\* ------------------------------------------------------------------ C38
\* the active alerts that the step acknowledges for the first time
Acknowledged ==
    {i \in 1..Len(active_alerts) :
        /\ IsNone(active_alerts[i].acknowledged_at)
        /\ \E j \in 1..Len(active_alerts') :
              /\ active_alerts'[j].alert_id = active_alerts[i].alert_id
              /\ ~IsNone(active_alerts'[j].acknowledged_at)}

\* C38: total_acknowledged of get_alert_metrics() counts the alerts that
\* acknowledge_alert has acknowledged: it starts at 0, every step adds to it
\* the alerts it acknowledges for the first time, and avg_response_time is
\* defined whenever the count is not 0
C38_MetricsCountAcknowledgements ==
    /\ [][get_alert_metrics(Self').total_acknowledged =
              get_alert_metrics(Self).total_acknowledged + Cardinality(Acknowledged)]_vars
    /\ [](get_alert_metrics(Self).total_acknowledged > 0
              => ~IsNone(get_alert_metrics(Self).avg_response_time))


\* ------------------------------------------------------------------ C39
\* measurement i was registered for the target: its key is the one
\* register_measurement makes for that target and some event type
RegisteredFor(target, i) ==
    \E event_type \in MeasurementTypes :
        measurements[i].key = MeasurementKey(target, event_type)

\* C39: record_interaction for a target leaves every measurement registered
\* for another target as it is, also one whose callsign contains the target
C39_OnlyThatTarget ==
    \A interaction_type \in InteractionTypes, target \in MeasurementTargets :
        LET after == record_interaction(Self, interaction_type, target).measurements
        IN  \A i \in DOMAIN measurements :
                ~RegisteredFor(target, i) => after[i] = measurements[i]


\* ------------------------------------------------------------------ C40
\* the callsigns of the aircraft in the set
InSet == {engine.aircraft[i].callsign : i \in 1..Len(engine.aircraft)}

\* C40: both aircraft of every conflict in the conflict list are in the
\* aircraft set, in every state
C40_ConflictsReferToAircraft ==
    \A i \in 1..Len(engine.conflicts) :
        /\ engine.conflicts[i].callsign1 \in InSet
        /\ engine.conflicts[i].callsign2 \in InSet

====
